---- MODULE Spec2Model ----
(***************************************************************************)
(* A model of the uc3m-timetable crate: the fail-fast iterator adapter     *)
(* (util.rs), the timetable identifier and its URL (lib.rs), and the       *)
(* iCalendar model with its text serializer (ical/mod.rs,                  *)
(* ical/components.rs), and the parser of the timetable page (parse.rs).   *)
(*                                                                         *)
(* Text is a sequence of Unicode code points, so that byte lengths,        *)
(* escaping and folding are computed as the code computes them.  An        *)
(* Option<T> is a sequence of length at most one: <<>> is None and <<v>>   *)
(* is Some(v).  Every part of the crate has its own specification over     *)
(* its own variables; the variables of the other parts stay idle.          *)
(***************************************************************************)
EXTENDS Integers, Sequences, FiniteSets, TLC

VARIABLES
    \* util.rs: Process { iter, state } and what its caller has seen
    src,        \* the items of the wrapped iterator, as given to process()
    pos,        \* how many items the wrapped iterator has handed out
    state,      \* the shared slot, Rc<RefCell<Result<(), E>>>
    yielded,    \* the values next() has returned in Some(_), in order
    ret,        \* what the last call of next() returned
    calls,      \* how many times next() has been called
    \* lib.rs: a TimetableId, its url() and the try_from of that url
    id, url, parsed,
    \* ical/components.rs: an Event under construction and its Component
    event, component,
    \* ical/mod.rs: a Calendar
    calendar,
    \* ical/mod.rs: a Prop, the arguments of the last call that took some
    \* (Prop::text, Param::new, Recurrence::times, interval), its rendering
    prop, args, rendered,
    \* ical/components.rs: a Recurrence and its rendering
    rec, rule_text,
    \* parse.rs, lib.rs: the document, the clock (Utc::now), the Parser of
    \* the last Timetable::parse with the rows it has done and its Vec of
    \* events, the result of that call, and the Parser of the call before
    html, now, parser, timetable, earlier,
    \* the message of the assertion that failed, "" while none has
    panicked

procVars == <<src, pos, state, yielded, ret, calls>>
idVars == <<id, url, parsed>>
eventVars == <<event, component>>
calVars == <<calendar>>
propVars == <<prop, args, rendered>>
recVars == <<rec, rule_text>>
parseVars == <<html, now, parser, timetable, earlier>>
vars == <<src, pos, state, yielded, ret, calls, id, url, parsed,
          event, component, calendar, prop, args, rendered,
          rec, rule_text, html, now, parser, timetable, earlier, panicked>>

None == <<>>
Some(v) == <<v>>
IsSome(o) == Len(o) = 1
IsNone(o) == Len(o) = 0
Unwrap(o) == o[1]

RECURSIVE Concat(_)
Concat(ss) == IF ss = <<>> THEN <<>> ELSE Head(ss) \o Concat(Tail(ss))

\* All sequences over S of length at most n.
SeqsUpTo(S, n) == UNION {[1..k -> S] : k \in 0..n}

\* The parts of the crate a specification does not exercise.
IdleProcess ==
    /\ src = <<>> /\ pos = 0 /\ state = [ok |-> TRUE, err |-> "-"]
    /\ yielded = <<>> /\ ret = [called |-> FALSE, item |-> <<>>] /\ calls = 0
IdleId == id = <<>> /\ url = <<>> /\ parsed = <<>>
IdleEvent == event = <<>> /\ component = <<>>
IdleCalendar == calendar = <<>>
IdleProp == prop = <<>> /\ args = <<>> /\ rendered = <<>>
IdleRecurrence == rec = <<>> /\ rule_text = <<>>
IdleParse ==
    html = <<>> /\ now = 0 /\ parser = <<>> /\ timetable = <<>> /\ earlier = <<>>

(***************************************************************************)
(* util.rs: the Process adapter                                            *)
(***************************************************************************)

\* Bounds of the Process model.
MaxSrcLen == 3
MaxCalls == 6

Ok(v) == [ok |-> TRUE, val |-> v, err |-> "-"]
Err(e) == [ok |-> FALSE, val |-> 0, err |-> e]
Values == 1..2
Errors == {"e1", "e2"}
Items == {Ok(v) : v \in Values} \cup {Err(e) : e \in Errors}

\* The slot: Ok(()) or Err(e).
SlotOk == [ok |-> TRUE, err |-> "-"]
SlotErr(e) == [ok |-> FALSE, err |-> e]

\* What next() returned: nothing yet, Some(v) or None.
RetNotCalled == [called |-> FALSE, item |-> None]
RetSome(v) == [called |-> TRUE, item |-> Some(v)]
RetNone == [called |-> TRUE, item |-> None]

\* process(iter): the adapter over iter and a fresh slot holding Ok(()).
process(source) ==
    /\ src = source
    /\ pos = 0
    /\ state = SlotOk
    /\ yielded = <<>>
    /\ ret = RetNotCalled
    /\ calls = 0

\* self.state.borrow().is_err()
StateIsErrNever(slot) == FALSE
StateIsErr(slot) == ~slot.ok

\* Process::next, first branch: the slot holds an error.
NextAfterErr ==
    /\ calls < MaxCalls
    /\ StateIsErr(state)
    /\ ret' = RetNone
    /\ calls' = calls + 1
    /\ UNCHANGED <<src, pos, state, yielded>>
    /\ UNCHANGED <<idVars, eventVars, calVars, propVars, recVars, parseVars, panicked>>

\* Process::next: the wrapped iterator returns Some(Ok(item)).
NextOk ==
    /\ calls < MaxCalls
    /\ ~StateIsErr(state)
    /\ pos < Len(src)
    /\ src[pos + 1].ok
    /\ pos' = pos + 1
    /\ yielded' = Append(yielded, src[pos + 1].val)
    /\ ret' = RetSome(src[pos + 1].val)
    /\ calls' = calls + 1
    /\ UNCHANGED <<src, state>>
    /\ UNCHANGED <<idVars, eventVars, calVars, propVars, recVars, parseVars, panicked>>

\* Process::next: the wrapped iterator returns Some(Err(e)).
NextErr ==
    /\ calls < MaxCalls
    /\ ~StateIsErr(state)
    /\ pos < Len(src)
    /\ ~src[pos + 1].ok
    /\ pos' = pos + 1
    /\ state' = SlotErr(src[pos + 1].err)
    /\ ret' = RetNone
    /\ calls' = calls + 1
    /\ UNCHANGED <<src, yielded>>
    /\ UNCHANGED <<idVars, eventVars, calVars, propVars, recVars, parseVars, panicked>>

\* Process::next: the wrapped iterator (a Vec's, which is fused) returns None.
NextEnd ==
    /\ calls < MaxCalls
    /\ ~StateIsErr(state)
    /\ pos = Len(src)
    /\ ret' = RetNone
    /\ calls' = calls + 1
    /\ UNCHANGED <<src, pos, state, yielded>>
    /\ UNCHANGED <<idVars, eventVars, calVars, propVars, recVars, parseVars, panicked>>

InitProcess ==
    /\ \E source \in SeqsUpTo(Items, MaxSrcLen) : process(source)
    /\ IdleId /\ IdleEvent /\ IdleCalendar /\ IdleProp /\ IdleRecurrence /\ IdleParse /\ panicked = ""

NextProcess == NextAfterErr \/ NextOk \/ NextErr \/ NextEnd

SpecProcess == InitProcess /\ [][NextProcess]_vars


\* The values of the longest prefix of a source that holds no failure.
RECURSIVE OkPrefix(_)
OkPrefix(source) ==
    IF source = <<>> \/ ~Head(source).ok THEN <<>>
    ELSE <<Head(source).val>> \o OkPrefix(Tail(source))

HasErr(source) == \E i \in 1..Len(source) : ~source[i].ok
FirstErr(source) ==
    source[CHOOSE i \in 1..Len(source) :
               ~source[i].ok /\ \A j \in 1..(i - 1) : source[j].ok].err

IsPrefix(a, b) == Len(a) <= Len(b) /\ SubSeq(b, 1, Len(a)) = a

\* C1: what the adapter has yielded is always a prefix of the values of the
\* longest all-success prefix of the source; once next() has returned None
\* it is exactly those values, and the slot is Ok(()) if and only if the
\* source holds no failure, and otherwise holds the first failure.
C1_DrainYieldsOkPrefix ==
    /\ IsPrefix(yielded, OkPrefix(src))
    /\ ret = RetNone =>
        /\ yielded = OkPrefix(src)
        /\ state.ok <=> ~HasErr(src)
        /\ HasErr(src) => state = SlotErr(FirstErr(src))

\* The source of the test one_err, drained: the item after the failure is
\* never yielded, the one before it is kept.
C1_Witness ==
    /\ src = <<Ok(1), Err("e1"), Ok(2)>>
    /\ ret = RetNone
    /\ calls >= 3
    /\ yielded = <<1>>
    /\ state = SlotErr("e1")

\* C2: once the slot holds an error, a call of next() returns None, takes
\* nothing from the source, yields nothing and leaves the slot as it is.
C2_ErrIsFinal ==
    [][~state.ok =>
        /\ state' = state
        /\ pos' = pos
        /\ yielded' = yielded
        /\ ret' = RetNone]_vars

\* Three calls after the failure was stored, with a second failure and a
\* success still in the source.
C2_Witness ==
    /\ src = <<Err("e1"), Err("e2"), Ok(1)>>
    /\ state = SlotErr("e1")
    /\ calls >= 4
    /\ pos = 1
    /\ yielded = <<>>
    /\ ret = RetNone
    /\ pos = 1
    /\ calls >= 4
    /\ ret = RetNone


(***************************************************************************)
(* lib.rs: TimetableId, its url() and TryFrom<Url>                         *)
(***************************************************************************)

\* Integer widths of the fields of TimetableId.
U8Max == 255
U16Max == 65535
I32Max == 2147483647

\* Code points.
Digit0 == 48
Minus == 45
Plus == 43
UpperC == 67

UC3M_TIMEZONE == "Europe/Madrid"
UC3M_TIMETABLE_DOMAIN == "aplicaciones.uc3m.es"

\* <integer>::to_string and {} of an integer: decimal digits, '-' first if negative.
RECURSIVE NatToString(_)
NatToString(n) ==
    IF n < 10 THEN <<Digit0 + n>>
    ELSE NatToString(n \div 10) \o <<Digit0 + (n % 10)>>

IntToStringNoSign(n) == IF n < 0 THEN NatToString(0 - n) ELSE NatToString(n)
IntToString(n) == IF n < 0 THEN <<Minus>> \o NatToString(0 - n) ELSE NatToString(n)

IsDigit(c) == c >= Digit0 /\ c <= Digit0 + 9

RECURSIVE DigitsValue(_, _)
DigitsValue(digits, acc) ==
    IF digits = <<>> THEN acc
    ELSE DigitsValue(Tail(digits), acc * 10 + (Head(digits) - Digit0))

\* str::parse::<integer type lo..hi>: an optional sign ('-' for a signed type
\* only), then one or more digits, the value within the type. None is Err(_).
ParseInt(text, lo, hi) ==
    LET signed == Len(text) > 0 /\ (text[1] = Plus \/ (text[1] = Minus /\ lo < 0))
        digits == IF signed THEN Tail(text) ELSE text
        neg == signed /\ text[1] = Minus
    IN  IF digits = <<>> \/ \E i \in 1..Len(digits) : ~IsDigit(digits[i])
        THEN None
        ELSE LET v == IF neg THEN 0 - DigitsValue(digits, 0) ELSE DigitsValue(digits, 0)
             IN  IF v < lo \/ v > hi THEN None ELSE Some(v)

\* TimetableId::new
TimetableIdNew(year, plan, center, grade, group, period, time_zone) ==
    [year |-> year, plan |-> plan, center |-> center, grade |-> grade,
     group |-> group, period |-> period, time_zone |-> time_zone]

\* A Url: its domain (None for an address without one), whether it
\* cannot be a base, its path segments and its query pairs.
UrlOf(domain, cannot_be_a_base, segments, query) ==
    [domain |-> domain, cannot_be_a_base |-> cannot_be_a_base,
     segments |-> segments, query |-> query]

\* TimetableId::url
TimetableIdUrl(x) ==
    UrlOf(Some(UC3M_TIMETABLE_DOMAIN), FALSE,
          <<[lit |-> "horarios-web", text |-> <<>>],
            [lit |-> "publicacion", text |-> <<>>],
            [lit |-> "", text |-> IntToString(x.year)],
            [lit |-> "porCentroPlanCursoGrupo.tt", text |-> <<>>]>>,
          <<[key |-> "plan", value |-> IntToString(x.plan)],
            [key |-> "centro", value |-> IntToString(x.center)],
            [key |-> "curso", value |-> IntToString(x.grade)],
            [key |-> "grupo", value |-> IntToString(x.group)],
            [key |-> "tipoPer", value |-> <<UpperC>>],
            [key |-> "valorPer", value |-> IntToString(x.period)]>>)

IdOk(x) == [ok |-> TRUE, val |-> Some(x), err |-> "-", param |-> "-"]
IdErr(e, name) == [ok |-> FALSE, val |-> None, err |-> e, param |-> name]

\* url.query_pairs().collect::<HashMap>().get(name): the last pair of that key.
QueryGet(query, name) ==
    LET hits == {i \in 1..Len(query) : query[i].key = name}
    IN  IF hits = {} THEN None
        ELSE Some(query[CHOOSE i \in hits : \A j \in hits : j <= i].value)

\* parse_query_param::<integer type 0..hi>
ParseQueryParam(query, name, hi) ==
    LET raw == QueryGet(query, name)
    IN  IF IsNone(raw) THEN IdErr("MissingQueryParam", name)
        ELSE LET v == ParseInt(Unwrap(raw), 0, hi)
             IN  IF IsNone(v) THEN IdErr("InvalidQueryParam", name)
                 ELSE [ok |-> TRUE, val |-> v, err |-> "-", param |-> name]

\* The time zone try_from gives the identifier it builds.
TryFromTimeZone == UC3M_TIMEZONE

\* The text of a path segment: a literal of the format string, or the year.
SegmentIsText(seg) == seg.lit = ""

\* TryFrom<Url> for TimetableId
TimetableIdTryFrom(u) ==
    IF IsNone(u.domain) THEN IdErr("MissingDomain", "-")
    ELSE IF Unwrap(u.domain) # UC3M_TIMETABLE_DOMAIN THEN IdErr("IncorrectDomain", "-")
    ELSE IF u.cannot_be_a_base THEN IdErr("CannotBeABaseUrl", "-")
    ELSE IF Len(u.segments) < 3 THEN IdErr("MissingYearSegment", "-")
    ELSE
      LET seg == u.segments[3]
          year == IF SegmentIsText(seg) THEN ParseInt(seg.text, 0 - I32Max - 1, I32Max)
                  ELSE None
          plan == ParseQueryParam(u.query, "plan", U16Max)
          center == ParseQueryParam(u.query, "centro", U8Max)
          grade == ParseQueryParam(u.query, "curso", U8Max)
          group == ParseQueryParam(u.query, "grupo", U16Max)
          period == ParseQueryParam(u.query, "valorPer", U8Max)
      IN  IF IsNone(year) THEN IdErr("InvalidYearSegment", "-")
          ELSE IF ~plan.ok THEN plan
          ELSE IF ~center.ok THEN center
          ELSE IF ~grade.ok THEN grade
          ELSE IF ~group.ok THEN group
          ELSE IF ~period.ok THEN period
          ELSE IdOk(TimetableIdNew(Unwrap(year), Unwrap(plan.val), Unwrap(center.val),
                                   Unwrap(grade.val), Unwrap(group.val),
                                   Unwrap(period.val), TryFromTimeZone))


\* The identifiers the model builds: small and large values of every field
\* (a negative year, the largest u8 and u16), in two time zones.
Years == {0 - 1, 0, 2022, I32Max}
Plans == {0, 433, U16Max}
Centers == {2, U8Max}
Grades == {4, 10}
Groups == {121, U16Max}
Periods == {1, 2}
TimeZones == {UC3M_TIMEZONE, "UTC"}
TimetableIds ==
    {TimetableIdNew(y, p, c, g, gr, pe, tz) :
        y \in Years, p \in Plans, c \in Centers, g \in Grades,
        gr \in Groups, pe \in Periods, tz \in TimeZones}

InitId ==
    /\ id \in {Some(x) : x \in TimetableIds}
    /\ url = None
    /\ parsed = None
    /\ IdleProcess /\ IdleEvent /\ IdleCalendar /\ IdleProp /\ IdleRecurrence /\ IdleParse /\ panicked = ""

\* let u = x.url()
Url ==
    /\ IsSome(id)
    /\ url = None
    /\ url' = Some(TimetableIdUrl(Unwrap(id)))
    /\ UNCHANGED <<id, parsed>>
    /\ UNCHANGED <<procVars, eventVars, calVars, propVars, recVars, parseVars, panicked>>

\* TimetableId::try_from(u)
TryFrom ==
    /\ IsSome(url)
    /\ parsed = None
    /\ parsed' = Some(TimetableIdTryFrom(Unwrap(url)))
    /\ UNCHANGED <<id, url>>
    /\ UNCHANGED <<procVars, eventVars, calVars, propVars, recVars, parseVars, panicked>>

NextId == Url \/ TryFrom

SpecId == InitId /\ [][NextId]_vars

\* C3 as stated: try_from(x.url()) is Ok(x) for every identifier x, all
\* seven fields compared.
C3_RoundTripEveryZone ==
    IsSome(parsed) => Unwrap(parsed) = IdOk(Unwrap(id))

\* C3, amended: try_from(x.url()) is Ok of x with its time zone replaced by
\* UC3M_TIMEZONE, which is Ok(x) for every x of that time zone.
C3_RoundTripUc3mZone ==
    IsSome(parsed) =>
        /\ Unwrap(parsed) = IdOk([Unwrap(id) EXCEPT !.time_zone = UC3M_TIMEZONE])
        /\ Unwrap(id).time_zone = UC3M_TIMEZONE => Unwrap(parsed) = IdOk(Unwrap(id))

\* The round trip of an identifier of the university's time zone with a
\* negative year and the largest plan and center.
C3_Witness ==
    /\ IsSome(parsed)
    /\ Unwrap(id) = TimetableIdNew(0 - 1, U16Max, U8Max, 10, 121, 2, UC3M_TIMEZONE)
    /\ Unwrap(parsed).ok
    /\ Unwrap(url).query[2] = [key |-> "centro", value |-> <<50, 53, 53>>]


\* The addresses try_from is given: with the university's domain, another
\* domain or none; a prefix of the timetable path with a numeric or a
\* non-numeric year; the timetable query whole, short of one pair, or with
\* a non-numeric plan. A cannot-be-a-base address (mailto:, data:) has no
\* host and no path segments, so that its domain is None.
YearTexts == {<<50, 48, 50, 50>>, <<120>>}
UrlSegments ==
    {SubSeq(<<[lit |-> "horarios-web", text |-> <<>>],
              [lit |-> "publicacion", text |-> <<>>],
              [lit |-> "", text |-> y],
              [lit |-> "porCentroPlanCursoGrupo.tt", text |-> <<>>]>>, 1, n) :
        n \in 0..4, y \in YearTexts}
FullQuery == TimetableIdUrl(TimetableIdNew(2022, 433, 2, 4, 121, 1, UC3M_TIMEZONE)).query
UrlQueries ==
    {FullQuery, [FullQuery EXCEPT ![1].value = <<120>>]}
        \cup {SelectSeq(FullQuery, LAMBDA pair : pair.key # k) :
                k \in {"plan", "centro", "curso", "grupo", "valorPer"}}
Domains == {None, Some(UC3M_TIMETABLE_DOMAIN), Some("example.com")}
Urls ==
    {UrlOf(d, FALSE, segs, q) : d \in Domains, segs \in UrlSegments, q \in UrlQueries}
        \cup {UrlOf(None, TRUE, <<>>, q) : q \in UrlQueries}

InitUrl ==
    /\ id = None
    /\ url \in {Some(u) : u \in Urls}
    /\ parsed = None
    /\ IdleProcess /\ IdleEvent /\ IdleCalendar /\ IdleProp /\ IdleRecurrence /\ IdleParse /\ panicked = ""

NextUrl == TryFrom

SpecUrl == InitUrl /\ [][NextUrl]_vars

\* C18: try_from of a cannot-be-a-base address fails with CannotBeABaseUrl,
\* which is neither the error of a missing domain nor that of an
\* incorrect one.
C18_CannotBeABaseReported ==
    (IsSome(parsed) /\ Unwrap(url).cannot_be_a_base) =>
        Unwrap(parsed) = IdErr("CannotBeABaseUrl", "-")


(***************************************************************************)
(* ical/mod.rs: Param, Prop, their text and the line folding               *)
(***************************************************************************)

\* Code points.
CR == 13
LF == 10
Space == 32
Quote == 34
Comma == 44
Solidus == 47
Colon == 58
Semicolon == 59
Equals == 61
Backslash == 92
LowerN == 110
UpperT == 84

\* The characters of a &'static str name used by the crate and its tests.
Chars(name) ==
    CASE
         name = "DTSTAMP" -> <<68, 84, 83, 84, 65, 77, 80>>
      [] name = "UID" -> <<85, 73, 68>>
      [] name = "DTSTART" -> <<68, 84, 83, 84, 65, 82, 84>>
      [] name = "CREATED" -> <<67, 82, 69, 65, 84, 69, 68>>
      [] name = "SUMMARY" -> <<83, 85, 77, 77, 65, 82, 89>>
      [] name = "DESCRIPTION" -> <<68, 69, 83, 67, 82, 73, 80, 84, 73, 79, 78>>
      [] name = "LOCATION" -> <<76, 79, 67, 65, 84, 73, 79, 78>>
      [] name = "DTEND" -> <<68, 84, 69, 78, 68>>
      [] name = "DURATION" -> <<68, 85, 82, 65, 84, 73, 79, 78>>
      [] name = "RRULE" -> <<82, 82, 85, 76, 69>>
      [] name = "TZID" -> <<84, 90, 73, 68>>
      [] name = "PRODID" -> <<80, 82, 79, 68, 73, 68>>
      [] name = "VERSION" -> <<86, 69, 82, 83, 73, 79, 78>>
      [] name = "VEVENT" -> <<86, 69, 86, 69, 78, 84>>
      [] name = "A" -> <<65>>
      [] name = "TITLE" -> <<84, 73, 84, 76, 69>>
      [] name = "ROW" -> <<82, 79, 87>>

\* chrono_tz's Tz::name
TzName(tz) ==
    CASE tz = "Europe/Madrid" -> <<69, 117, 114, 111, 112, 101, 47, 77, 97, 100, 114, 105, 100>>
      [] tz = "UTC" -> <<85, 84, 67>>

\* char::len_utf8
len_utf8(ch) ==
    IF ch < 128 THEN 1
    ELSE IF ch < 2048 THEN 2
    ELSE IF ch < 65536 THEN 3
    ELSE 4

\* The octets of the characters lo..hi of a text.
RECURSIVE Octets(_, _, _)
Octets(text, lo, hi) ==
    IF lo > hi THEN 0
    ELSE IF lo = hi THEN len_utf8(text[lo])
    ELSE Octets(text, lo, (lo + hi) \div 2) + Octets(text, (lo + hi) \div 2 + 1, hi)

\* str::len
ByteLen(text) == Octets(text, 1, Len(text))

\* str::replace(from, to) for a single character from.
RECURSIVE StrReplace(_, _, _)
StrReplace(text, from, to) ==
    IF text = <<>> THEN <<>>
    ELSE (IF Head(text) = from THEN to ELSE <<Head(text)>>) \o StrReplace(Tail(text), from, to)

\* Itertools::join and [String]::join
RECURSIVE Join(_, _)
Join(texts, sep) ==
    IF texts = <<>> THEN <<>>
    ELSE IF Len(texts) = 1 THEN texts[1]
    ELSE texts[1] \o sep \o Join(Tail(texts), sep)

\* Param::new: the parameter, or None where the assertion fails.
ParamNewUnchecked(name, values) == Some([name |-> name, values |-> values])
ParamNew(name, values) ==
    IF \E i \in 1..Len(values) : \E j \in 1..Len(values[i]) : values[i][j] = Quote
    THEN None
    ELSE Some([name |-> name, values |-> values])

\* Prop::new
PropNew(name, value) == [name |-> name, params |-> <<>>, value |-> value]

\* The closure of Prop::text: one value escaped according to section 3.3.11.
EscapeTextBackslashLast(text) ==
    StrReplace(StrReplace(StrReplace(StrReplace(text,
        Semicolon, <<Backslash, Semicolon>>),
        Comma, <<Backslash, Comma>>),
        LF, <<Backslash, LowerN>>),
        Backslash, <<Backslash, Backslash>>)
EscapeText(text) ==
    StrReplace(StrReplace(StrReplace(StrReplace(text,
        Backslash, <<Backslash, Backslash>>),
        Semicolon, <<Backslash, Semicolon>>),
        Comma, <<Backslash, Comma>>),
        LF, <<Backslash, LowerN>>)

\* Prop::text
PropText(name, values) ==
    PropNew(name, Join([i \in 1..Len(values) |-> EscapeText(values[i])], <<Comma>>))


\* Prop::params_mut().push(param)
PropPushParam(p, param) == [p EXCEPT !.params = Append(@, param)]

MAX_LINE_LEN == 75

\* Display for Prop, the body of the loop of write_folded: the character ch
\* written after acc.out, with acc.line_len the running length of the line.
FoldCharNoSpace(acc, ch) ==
    IF acc.line_len + len_utf8(ch) > MAX_LINE_LEN
    THEN [line_len |-> 1 + len_utf8(ch), out |-> acc.out \o <<CR, LF, ch>>]
    ELSE [line_len |-> acc.line_len + len_utf8(ch), out |-> acc.out \o <<ch>>]
FoldCharByChars(acc, ch) ==
    IF acc.line_len + 1 > MAX_LINE_LEN
    THEN [line_len |-> 1 + 1, out |-> acc.out \o <<CR, LF, Space, ch>>]
    ELSE [line_len |-> acc.line_len + 1, out |-> acc.out \o <<ch>>]
FoldChar(acc, ch) ==
    IF acc.line_len + len_utf8(ch) > MAX_LINE_LEN
    THEN [line_len |-> 1 + len_utf8(ch), out |-> acc.out \o <<CR, LF, Space, ch>>]
    ELSE [line_len |-> acc.line_len + len_utf8(ch), out |-> acc.out \o <<ch>>]

\* The loop over part.chars(), from character lo to character hi in order.
\* The range is halved, and line_len (a usize) is read first, so that the
\* evaluation neither nests nor defers its work per character.
RECURSIVE FoldChars(_, _, _, _)
FoldChars(part, lo, hi, acc) ==
    IF acc.line_len >= 0 /\ lo = hi THEN FoldChar(acc, part[lo])
    ELSE IF lo > hi THEN acc
    ELSE FoldChars(part, (lo + hi) \div 2 + 1, hi,
                   FoldChars(part, lo, (lo + hi) \div 2, acc))

\* Display for Prop, the write_folded closure.
write_folded(part, acc) == FoldChars(part, 1, Len(part), acc)

\* format!(r#";{}="{}""#, param.name, param.values.join(r#"",""#))
ParamText(param) ==
    <<Semicolon>> \o Chars(param.name) \o <<Equals, Quote>>
        \o Join(param.values, <<Quote, Comma, Quote>>) \o <<Quote>>

\* The parts Display for Prop hands to write_folded, in order.
PropParts(p) ==
    <<Chars(p.name)>>
        \o [i \in 1..Len(p.params) |-> ParamText(p.params[i])]
        \o <<(<<Colon>> \o p.value \o <<CR, LF>>)>>

RECURSIVE WriteParts(_, _)
WriteParts(parts, acc) ==
    IF parts = <<>> THEN acc
    ELSE WriteParts(Tail(parts), write_folded(Head(parts), acc))

\* Display for Prop (Prop::to_string)
PropToString(p) == WriteParts(PropParts(p), [line_len |-> 0, out |-> <<>>]).out

(***************************************************************************)
(* chrono: DateTime<Tz> is an instant (seconds since 1970-01-01T00:00:00Z) *)
(* and a time zone; its fields are those of the zone's local time          *)
(***************************************************************************)

DateTimeOf(utc, tz) == [utc |-> utc, tz |-> tz]

\* Days since 1970-01-01 of a civil date, and back (proleptic Gregorian).
\* The steps are operators, each a function of the values before it.
DaysOfEra(yy, mp, d) ==
    (yy \div 400) * 146097
        + ((yy % 400) * 365 + (yy % 400) \div 4 - (yy % 400) \div 100)
        + ((153 * mp + 2) \div 5 + d - 1)
        - 719468

DaysFromCivil(y, m, d) ==
    DaysOfEra(IF m <= 2 THEN y - 1 ELSE y, IF m > 2 THEN m - 3 ELSE m + 9, d)

CivilOfMonth(y, m, d) ==
    [year |-> y + (IF m <= 2 THEN 1 ELSE 0), month |-> m, day |-> d]

CivilOfMp(y, doy, mp) ==
    CivilOfMonth(y, IF mp < 10 THEN mp + 3 ELSE mp - 9, doy - (153 * mp + 2) \div 5 + 1)

CivilOfDoy(y, doy) == CivilOfMp(y, doy, (5 * doy + 2) \div 153)

CivilOfYoe(era, doe, yoe) ==
    CivilOfDoy(yoe + era * 400, doe - (365 * yoe + yoe \div 4 - yoe \div 100))

CivilOfDoe(era, doe) ==
    CivilOfYoe(era, doe, (doe - doe \div 1460 + doe \div 36524 - doe \div 146096) \div 365)

CivilFromDays(days) == CivilOfDoe((days + 719468) \div 146097, (days + 719468) % 146097)

SecondsPerDay == 86400

\* The last Sunday of a 31-day month, at 01:00 UTC: where the European
\* summer time starts (March) and ends (October). Day 0 is a Sunday in
\* (day + 4) % 7: 1970-01-01 was a Thursday.
SundayOnOrBefore(day) == day - ((day + 4) % 7)
LastSundayAt1(y, m) == SundayOnOrBefore(DaysFromCivil(y, m, 31)) * SecondsPerDay + 3600

\* chrono_tz: the offset from UTC, in seconds, of Europe/Madrid in a year.
MadridOffset(utc, y) ==
    IF utc >= LastSundayAt1(y, 3) /\ utc < LastSundayAt1(y, 10) THEN 7200 ELSE 3600

\* chrono_tz: the offset from UTC, in seconds, of a zone at an instant.
UtcOffset(tz, utc) ==
    IF tz = "UTC" THEN 0
    ELSE MadridOffset(utc, CivilFromDays(utc \div SecondsPerDay).year)

\* The fields of a date and of the seconds since its midnight.
FieldsOf(date, secs) ==
    [year |-> date.year, month |-> date.month, day |-> date.day,
     hour |-> secs \div 3600, minute |-> (secs % 3600) \div 60, second |-> secs % 60]

FieldsOfLocal(local) == FieldsOf(CivilFromDays(local \div SecondsPerDay), local % SecondsPerDay)

\* Datelike and Timelike of DateTime<Tz>: the fields of the local time.
LocalFields(dt) == FieldsOfLocal(dt.utc + UtcOffset(dt.tz, dt.utc))

\* DateTime::with_timezone
KeepTimezone(dt, tz) == dt
WithTimezone(dt, tz) == DateTimeOf(dt.utc, tz)

\* {:0width} of a non-negative integer.
RECURSIVE ZeroPad(_, _)
ZeroPad(text, width) == IF Len(text) >= width THEN text ELSE ZeroPad(<<Digit0>> \o text, width)

\* The format string of format_date_time, of the six fields.
FormatFields(f) ==
    ZeroPad(IntToString(f.year), 4) \o ZeroPad(IntToString(f.month), 2)
        \o ZeroPad(IntToString(f.day), 2) \o <<UpperT>>
        \o ZeroPad(IntToString(f.hour), 2) \o ZeroPad(IntToString(f.minute), 2)
        \o ZeroPad(IntToString(f.second), 2)

\* format_date_time
format_date_time(date_time) == FormatFields(LocalFields(date_time))

\* Prop::date_time
PropDateTime(name, date_time) ==
    [name |-> name,
     params |-> <<Unwrap(ParamNew("TZID", <<(<<Solidus>> \o TzName(date_time.tz))>>))>>,
     value |-> format_date_time(date_time)]


(***************************************************************************)
(* ical/components.rs: Event, Recurrence, TimeUnit                         *)
(***************************************************************************)

\* The characters of the literals of the format strings and of the keywords.
Literal(s) ==
    CASE
         s = "FREQ=" -> <<70, 82, 69, 81, 61>>
      [] s = ";UNTIL=" -> <<59, 85, 78, 84, 73, 76, 61>>
      [] s = ";COUNT=" -> <<59, 67, 79, 85, 78, 84, 61>>
      [] s = ";INTERVAL=" -> <<59, 73, 78, 84, 69, 82, 86, 65, 76, 61>>
      [] s = "SECONDLY" -> <<83, 69, 67, 79, 78, 68, 76, 89>>
      [] s = "MINUTELY" -> <<77, 73, 78, 85, 84, 69, 76, 89>>
      [] s = "HOURLY" -> <<72, 79, 85, 82, 76, 89>>
      [] s = "DAILY" -> <<68, 65, 73, 76, 89>>
      [] s = "WEEKLY" -> <<87, 69, 69, 75, 76, 89>>
      [] s = "MONTHLY" -> <<77, 79, 78, 84, 72, 76, 89>>
      [] s = "YEARLY" -> <<89, 69, 65, 82, 76, 89>>
      [] s = "P" -> <<80>>
      [] s = "D" -> <<68>>
      [] s = "T" -> <<84>>
      [] s = "S" -> <<83>>

\* TimeUnit::recurrence_freq
recurrence_freq(unit) ==
    CASE unit = "Second" -> "SECONDLY"
      [] unit = "Minute" -> "MINUTELY"
      [] unit = "Hour" -> "HOURLY"
      [] unit = "Day" -> "DAILY"
      [] unit = "Week" -> "WEEKLY"
      [] unit = "Month" -> "MONTHLY"
      [] unit = "Year" -> "YEARLY"

\* Recurrence::until
RecurrenceUntil(frequency, until) ==
    [frequency |-> frequency, until |-> Some(until), count |-> None, interval |-> None]

\* Recurrence::times: the rule, or None where NonZeroU32::new(count).expect fails.
RecurrenceTimesUnchecked(frequency, count) ==
    Some([frequency |-> frequency, until |-> None, count |-> Some(count),
          interval |-> None])
RecurrenceTimes(frequency, count) ==
    IF count = 0 THEN None
    ELSE Some([frequency |-> frequency, until |-> None, count |-> Some(count),
               interval |-> None])

\* Recurrence::interval: the rule, or None where the expect fails.
RecurrenceInterval(rule, interval) ==
    IF interval = 0 THEN None ELSE Some([rule EXCEPT !.interval = Some(interval)])

\* Display for Recurrence
RecurrenceToString(rule) ==
    Literal("FREQ=") \o Literal(recurrence_freq(rule.frequency))
        \o (IF IsSome(rule.until)
            THEN Literal(";UNTIL=")
                     \o format_date_time(WithTimezone(Unwrap(rule.until), "UTC"))
            ELSE Literal(";COUNT=") \o IntToString(Unwrap(rule.count)))
        \o (IF IsSome(rule.interval)
            THEN Literal(";INTERVAL=") \o IntToString(Unwrap(rule.interval))
            ELSE <<>>)

\* chrono's Display for Duration, of a whole number of seconds that is not
\* negative: P, the days if any, then T and the seconds left.
DurationToString(secs) ==
    LET days == secs \div SecondsPerDay
        rest == secs % SecondsPerDay
    IN  Literal("P")
            \o (IF days # 0 THEN IntToString(days) \o Literal("D") ELSE <<>>)
            \o (IF rest # 0 \/ days = 0
                THEN Literal("T") \o IntToString(rest) \o Literal("S") ELSE <<>>)

\* Event::new
EventNew(uid, last_modified, start) ==
    [uid |-> uid, last_modified |-> last_modified, start |-> start,
     created_on |-> None, summary |-> None, description |-> None,
     location |-> None, recurrence |-> None, end |-> None, duration |-> None]

\* Component::new
ComponentNew(name, props) == [name |-> name, props |-> props]

\* The optional properties of From<Event> for Component, in the order of
\* the array that is flattened. Option::map maps the at most one value of
\* the option.
OptionalPropsEndLast(e) ==
    <<[i \in DOMAIN e.created_on |-> PropDateTime("CREATED", e.created_on[i])],
      [i \in DOMAIN e.summary |-> PropNew("SUMMARY", e.summary[i])],
      [i \in DOMAIN e.description |-> PropNew("DESCRIPTION", e.description[i])],
      [i \in DOMAIN e.location |-> PropNew("LOCATION", e.location[i])],
      [i \in DOMAIN e.duration |-> PropNew("DURATION", DurationToString(e.duration[i]))],
      [i \in DOMAIN e.recurrence |-> PropNew("RRULE", RecurrenceToString(e.recurrence[i]))],
      [i \in DOMAIN e.end |-> PropDateTime("DTEND", e.end[i])]>>
OptionalProps(e) ==
    <<[i \in DOMAIN e.created_on |-> PropDateTime("CREATED", e.created_on[i])],
      [i \in DOMAIN e.summary |-> PropNew("SUMMARY", e.summary[i])],
      [i \in DOMAIN e.description |-> PropNew("DESCRIPTION", e.description[i])],
      [i \in DOMAIN e.location |-> PropNew("LOCATION", e.location[i])],
      [i \in DOMAIN e.end |-> PropDateTime("DTEND", e.end[i])],
      [i \in DOMAIN e.duration |-> PropNew("DURATION", DurationToString(e.duration[i]))],
      [i \in DOMAIN e.recurrence |-> PropNew("RRULE", RecurrenceToString(e.recurrence[i]))]>>

\* From<Event> for Component
ComponentFromEvent(e) ==
    ComponentNew("VEVENT",
        <<PropDateTime("DTSTAMP", e.last_modified),
          PropText("UID", <<e.uid>>),
          PropDateTime("DTSTART", e.start)>>
        \o Concat(OptionalProps(e)))


\* The arguments the model gives the builder of an Event.
LastModified == DateTimeOf(DaysFromCivil(2022, 8, 17) * SecondsPerDay + 22 * 3600 + 16 * 60,
                           UC3M_TIMEZONE)
FirstLecture == DateTimeOf(DaysFromCivil(2022, 9, 12) * SecondsPerDay + 9 * 3600, UC3M_TIMEZONE)
LectureEnd == DateTimeOf(FirstLecture.utc + 7200, UC3M_TIMEZONE)
LastLecture == DateTimeOf(DaysFromCivil(2022, 12, 19) * SecondsPerDay + 10 * 3600, UC3M_TIMEZONE)
Uids == {<<49, 50>>, <<97, 44, 98>>}                \* "12" and "a,b"
EventTexts == {<<72, 105>>, <<97, 59, 92, 98>>}     \* "Hi" and "a;\b"
Durations == {0 - 900, 0, 900, 7200}
Recurrences ==
    {Unwrap(RecurrenceTimes("Week", 12)), RecurrenceUntil("Week", LastLecture)}

InitEvent ==
    /\ event \in {Some(EventNew(uid, LastModified, FirstLecture)) : uid \in Uids}
    /\ component = None
    /\ panicked = ""
    /\ IdleProcess /\ IdleId /\ IdleCalendar /\ IdleProp /\ IdleRecurrence /\ IdleParse

\* A builder method can be called on an Event that was built and not yet
\* converted.
Building == IsSome(event) /\ component = None /\ panicked = ""

EventUnchanged == UNCHANGED <<procVars, idVars, calVars, propVars, recVars, parseVars>>

\* Event::created_on
EventCreatedOn ==
    /\ Building
    /\ event' = Some([Unwrap(event) EXCEPT !.created_on = Some(LastModified)])
    /\ UNCHANGED <<component, panicked>> /\ EventUnchanged

\* Event::summary
EventSummary ==
    /\ Building
    /\ \E summary \in EventTexts :
        event' = Some([Unwrap(event) EXCEPT !.summary = Some(summary)])
    /\ UNCHANGED <<component, panicked>> /\ EventUnchanged

\* Event::description
EventDescription ==
    /\ Building
    /\ \E description \in EventTexts :
        event' = Some([Unwrap(event) EXCEPT !.description = Some(description)])
    /\ UNCHANGED <<component, panicked>> /\ EventUnchanged

\* Event::location
EventLocation ==
    /\ Building
    /\ \E location \in EventTexts :
        event' = Some([Unwrap(event) EXCEPT !.location = Some(location)])
    /\ UNCHANGED <<component, panicked>> /\ EventUnchanged

\* Event::recurrence
EventRecurrence ==
    /\ Building
    /\ \E recurrence \in Recurrences :
        event' = Some([Unwrap(event) EXCEPT !.recurrence = Some(recurrence)])
    /\ UNCHANGED <<component, panicked>> /\ EventUnchanged

\* The first assertion of Event::end and of Event::duration.
EndAllowedAlways(e) == TRUE
EndAllowed(e) == IsNone(e.duration)
DurationAllowedAlways(e) == TRUE
DurationAllowed(e) == IsNone(e.end)

\* Event::end
EventEnd ==
    /\ Building
    /\ IF EndAllowed(Unwrap(event))
       THEN /\ event' = Some([Unwrap(event) EXCEPT !.end = Some(LectureEnd)])
            /\ UNCHANGED panicked
       ELSE /\ panicked' = "cannot set end datetime of event with duration"
            /\ UNCHANGED event
    /\ UNCHANGED component /\ EventUnchanged

\* Event::duration
EventDuration ==
    /\ Building
    /\ \E duration \in Durations :
        IF ~DurationAllowed(Unwrap(event))
        THEN /\ panicked' = "cannot set duration of event with end datetime"
             /\ UNCHANGED event
        ELSE IF ~(duration > 0)
        THEN /\ panicked' = "event duration must be positive"
             /\ UNCHANGED event
        ELSE /\ event' = Some([Unwrap(event) EXCEPT !.duration = Some(duration)])
             /\ UNCHANGED panicked
    /\ UNCHANGED component /\ EventUnchanged

\* Component::from(event)
EventInto ==
    /\ Building
    /\ component' = Some(ComponentFromEvent(Unwrap(event)))
    /\ UNCHANGED <<event, panicked>> /\ EventUnchanged

NextEvent ==
    \/ EventCreatedOn \/ EventSummary \/ EventDescription \/ EventLocation
    \/ EventRecurrence \/ EventEnd \/ EventDuration \/ EventInto

SpecEvent == InitEvent /\ [][NextEvent]_vars

\* The names of the properties of a component, in order.
PropNames(c) == [i \in 1..Len(c.props) |-> c.props[i].name]

\* The names of the optional properties an Event has a field for, in the
\* order of the output format.
ExpectedOptionalNames(e) ==
    SelectSeq(<<"CREATED", "SUMMARY", "DESCRIPTION", "LOCATION", "DTEND", "DURATION", "RRULE">>,
              LAMBDA name :
                  \/ name = "CREATED" /\ IsSome(e.created_on)
                  \/ name = "SUMMARY" /\ IsSome(e.summary)
                  \/ name = "DESCRIPTION" /\ IsSome(e.description)
                  \/ name = "LOCATION" /\ IsSome(e.location)
                  \/ name = "DTEND" /\ IsSome(e.end)
                  \/ name = "DURATION" /\ IsSome(e.duration)
                  \/ name = "RRULE" /\ IsSome(e.recurrence))

\* C4: the Component of an Event is a VEVENT whose properties are DTSTAMP,
\* UID, DTSTART and then, in the fixed order, exactly one property for each
\* optional field that is set, whatever the order of the builder calls.
C4_FixedPropOrder ==
    IsSome(component) =>
        /\ Unwrap(component).name = "VEVENT"
        /\ PropNames(Unwrap(component))
             = <<"DTSTAMP", "UID", "DTSTART">> \o ExpectedOptionalNames(Unwrap(event))

\* An Event with an end, a recurrence and three of the four other optional
\* fields, converted.
C4_Witness ==
    /\ IsSome(component)
    /\ PropNames(Unwrap(component))
         = <<"DTSTAMP", "UID", "DTSTART", "CREATED", "SUMMARY", "LOCATION", "DTEND", "RRULE">>

\* C5: end on an Event with a duration and duration on an Event with an end
\* fail fatally, and an Event that was built without a failure never has
\* both.
C5_EndXorDuration ==
    /\ [](IsSome(event) => ~(IsSome(Unwrap(event).end) /\ IsSome(Unwrap(event).duration)))
    /\ [][(EventEnd /\ IsSome(Unwrap(event).duration))
            => panicked' = "cannot set end datetime of event with duration"]_vars
    /\ [][(EventDuration /\ IsSome(Unwrap(event).end))
            => panicked' = "cannot set duration of event with end datetime"]_vars

\* end was called on an Event that has a duration, and failed.
C5_Witness ==
    /\ IsSome(event)
    /\ IsSome(Unwrap(event).duration)
    /\ IsNone(Unwrap(event).end)
    /\ panicked = "cannot set end datetime of event with duration"


(***************************************************************************)
(* ical/mod.rs: Calendar                                                   *)
(***************************************************************************)

\* Calendar::new: the calendar, or None where the assertion fails.
CalendarNew(product, spec_version, components) ==
    IF components = <<>> THEN None
    ELSE Some([props |-> <<PropText("PRODID", <<product>>),
                           PropText("VERSION", <<spec_version>>)>>,
               components |-> components])

\* Bounds: the components given to Calendar::new, and those a Vec is grown to.
MaxNewComponents == 2
MaxComponents == 4

ProductName == <<116, 101, 115, 116>>       \* "test"
SpecVersion == <<50, 46, 48>>               \* "2.0"
Components ==
    {ComponentFromEvent(EventNew(uid, LastModified, FirstLecture)) : uid \in Uids}
        \cup {ComponentFromEvent([EventNew(<<49, 50>>, LastModified, FirstLecture)
                                     EXCEPT !.summary = Some(<<72, 105>>)])}

InitCalendar ==
    /\ calendar = None
    /\ panicked = ""
    /\ IdleProcess /\ IdleId /\ IdleEvent /\ IdleProp /\ IdleRecurrence /\ IdleParse

CalendarUnchanged == UNCHANGED <<procVars, idVars, eventVars, propVars, recVars, parseVars>>

\* Calendar::new(product, spec_version, components)
CalendarNewCall ==
    /\ calendar = None /\ panicked = ""
    /\ \E components \in SeqsUpTo(Components, MaxNewComponents) :
        LET made == CalendarNew(ProductName, SpecVersion, components)
        IN  IF IsSome(made)
            THEN calendar' = made /\ UNCHANGED panicked
            ELSE panicked' = "calendar must have >= 1 components" /\ UNCHANGED calendar
    /\ CalendarUnchanged

\* calendar.components_mut().push(component): the caller holds &mut Vec
ComponentsMutPush ==
    /\ IsSome(calendar)
    /\ Len(Unwrap(calendar).components) < MaxComponents
    /\ \E c \in Components :
        calendar' = Some([Unwrap(calendar) EXCEPT !.components = Append(@, c)])
    /\ UNCHANGED panicked /\ CalendarUnchanged

\* calendar.components_mut().pop()
ComponentsMutPop ==
    /\ IsSome(calendar)
    /\ Unwrap(calendar).components # <<>>
    /\ calendar' = Some([Unwrap(calendar) EXCEPT !.components = SubSeq(@, 1, Len(@) - 1)])
    /\ UNCHANGED panicked /\ CalendarUnchanged

\* calendar.components_mut().clear()
ComponentsMutClear ==
    /\ IsSome(calendar)
    /\ calendar' = Some([Unwrap(calendar) EXCEPT !.components = <<>>])
    /\ UNCHANGED panicked /\ CalendarUnchanged

NextCalendar == CalendarNewCall \/ ComponentsMutPush \/ ComponentsMutPop \/ ComponentsMutClear

SpecCalendar == InitCalendar /\ [][NextCalendar]_vars

\* C6: every Calendar that was constructed holds at least one component,
\* also after the operations its public interface allows.
C6_CalendarNeverEmpty ==
    IsSome(calendar) => Len(Unwrap(calendar).components) >= 1


(***************************************************************************)
(* ical/mod.rs: building a Prop and rendering it                           *)
(***************************************************************************)

\* Bounds of the Prop model: the longest runs of one-byte characters before
\* and after the middle of a value, the length of that middle, the number
\* of parameters pushed, and the length of a text given to Prop::text.
MaxHead == 75
MaxMid == 1
MaxTail == 75
MaxParams == 1
MaxTextLen == 2

Fill(ch, n) == [i \in 1..n |-> ch]

\* A space and a character of two, three and four bytes: e-acute, the euro
\* sign and an emoji.
MidChars == {Space, 233, 8364, 128512}

\* Values of Prop::new: a run of 'a', a middle of up to MaxMid characters,
\* a run of 'b'. With the names and the parameters below the runs put the
\* 75th octet of the line, and of its continuation line, on every character
\* of the middle and on the CRLF that ends the line.
HeadRuns == {0} \cup (70..MaxHead)
TailRuns == {0} \cup (73..MaxTail)
NewValues ==
    {Fill(97, n) \o mid \o Fill(98, m) :
        n \in HeadRuns, mid \in SeqsUpTo(MidChars, MaxMid), m \in TailRuns}
NewNames == {"A", "DESCRIPTION"}

\* Lists of Prop::text over 'n', backslash, ';', ',' and the newline: no
\* text, one text of up to MaxTextLen characters, or such a text and a
\* second one of at most one character.
TextChars == {LowerN, Backslash, Semicolon, Comma, LF}
Texts == SeqsUpTo(TextChars, MaxTextLen)
TextLists ==
    {<<>>} \cup {<<t>> : t \in Texts}
           \cup {<<t, u>> : t \in Texts, u \in SeqsUpTo(TextChars, 1)}

\* The parameters the tests push: ROW=";," and one of two values.
PushedParams ==
    {Unwrap(ParamNew("ROW", <<(<<Semicolon, Comma>>)>>)),
     Unwrap(ParamNew("TZID", <<(<<98, 97, 114>>), (<<98, 97, 122>>)>>))}

InitProp ==
    /\ prop = None
    /\ args = None
    /\ rendered = None
    /\ panicked = ""
    /\ IdleProcess /\ IdleId /\ IdleEvent /\ IdleCalendar /\ IdleRecurrence /\ IdleParse

PropUnchanged ==
    UNCHANGED <<procVars, idVars, eventVars, calVars, recVars, parseVars, panicked>>

\* Prop::new(name, value)
PropNewCall ==
    /\ prop = None
    /\ \E name \in NewNames, value \in NewValues : prop' = Some(PropNew(name, value))
    /\ UNCHANGED <<args, rendered>> /\ PropUnchanged

\* Prop::text(name, values)
PropTextCall ==
    /\ prop = None
    /\ \E values \in TextLists :
        /\ prop' = Some(PropText("SUMMARY", values))
        /\ args' = Some(values)
    /\ UNCHANGED rendered /\ PropUnchanged

\* prop.params_mut().push(param)
ParamsMutPush ==
    /\ IsSome(prop)
    /\ rendered = None
    /\ Len(Unwrap(prop).params) < MaxParams
    /\ \E param \in PushedParams : prop' = Some(PropPushParam(Unwrap(prop), param))
    /\ UNCHANGED <<args, rendered>> /\ PropUnchanged

\* prop.to_string()
PropFmt ==
    /\ IsSome(prop)
    /\ rendered = None
    /\ rendered' = Some(PropToString(Unwrap(prop)))
    /\ UNCHANGED <<prop, args>> /\ PropUnchanged

NextProp == PropNewCall \/ PropTextCall \/ ParamsMutPush \/ PropFmt

SpecProp == InitProp /\ [][NextProp]_vars

(***************************************************************************)
(* RFC 5545 section 3.1 read off a rendering: octets, folds, lines         *)
(***************************************************************************)

\* The number of octets of the UTF-8 encoding of a code point (RFC 3629).
OctetsOfChar(ch) ==
    IF ch <= 127 THEN 1 ELSE IF ch <= 2047 THEN 2 ELSE IF ch <= 65535 THEN 3 ELSE 4

\* The encoded octets of the characters lo..hi of a text.
RECURSIVE EncodedOctets(_, _, _)
EncodedOctets(text, lo, hi) ==
    IF lo > hi THEN 0
    ELSE IF lo = hi THEN OctetsOfChar(text[lo])
    ELSE EncodedOctets(text, lo, (lo + hi) \div 2)
            + EncodedOctets(text, (lo + hi) \div 2 + 1, hi)

\* The unfolded content line of a Prop: name, parameters, ':' and value.
ContentLine(p) ==
    Chars(p.name) \o Concat([i \in 1..Len(p.params) |-> ParamText(p.params[i])])
        \o <<Colon>> \o p.value

NoCrLf(text) == \A i \in 1..Len(text) : text[i] # CR /\ text[i] # LF

\* A CRLF followed by one space starts at position f of the text.
IsFoldAt(text, f) ==
    /\ f >= 1 /\ f + 2 <= Len(text)
    /\ text[f] = CR /\ text[f + 1] = LF /\ text[f + 2] = Space
InFold(text, i) == \E f \in (i - 2)..i : IsFoldAt(text, f)

\* The text with every CRLF-followed-by-one-space deleted.
RECURSIVE UnfoldRange(_, _, _)
UnfoldRange(text, lo, hi) ==
    IF lo > hi THEN <<>>
    ELSE IF lo = hi THEN (IF InFold(text, lo) THEN <<>> ELSE <<text[lo]>>)
    ELSE UnfoldRange(text, lo, (lo + hi) \div 2)
            \o UnfoldRange(text, (lo + hi) \div 2 + 1, hi)
Unfold(text) == UnfoldRange(text, 1, Len(text))

\* The folds of a rendering (a character follows each), and its CRLFs.
FoldsOf(text) == {f \in 1..Len(text) : IsFoldAt(text, f) /\ f + 3 <= Len(text)}
BreaksOf(text) ==
    {b \in 1..(Len(text) - 1) : text[b] = CR /\ text[b + 1] = LF}

Min(S) == CHOOSE x \in S : \A y \in S : x <= y
Max(S) == CHOOSE x \in S : \A y \in S : x >= y

\* The first position of the line that holds position i, lines starting
\* at 1 and at the second position after each mark.
LineStart(marks, i) ==
    IF {m \in marks : m + 2 <= i} = {} THEN 1
    ELSE Max({m \in marks : m + 2 <= i}) + 2
\* The last position of the line that starts at s, lines ending before
\* each mark and at the end of the text.
LineEnd(marks, s, text) ==
    IF {m \in marks : m >= s} = {} THEN Len(text)
    ELSE Min({m \in marks : m >= s}) - 1
LineStarts(marks, text) == {1} \cup {m + 2 : m \in {n \in marks : n + 2 <= Len(text)}}

IsSuffix(tail, text) ==
    /\ Len(tail) <= Len(text)
    /\ SubSeq(text, Len(text) - Len(tail) + 1, Len(text)) = tail

\* C7's statement about a content line c and its rendering r.
CrLfOutsideCount(c, r) ==
    /\ EncodedOctets(c, 1, Len(c)) <= MAX_LINE_LEN => r = c \o <<CR, LF>>
    /\ IsSuffix(<<c[Len(c)], CR, LF>>, r)

\* C7: the folding count covers only the content line, the terminating
\* CRLF is neither counted nor folded: a Prop whose content line is at most
\* 75 octets renders as that line followed by CRLF, and every rendering
\* ends with the last content character immediately followed by CRLF.
C7_CrLfNeverCounted ==
    IsSome(rendered) => CrLfOutsideCount(ContentLine(Unwrap(prop)), Unwrap(rendered))

\* C8's statement about a content line c and its rendering r.
UnfoldsTo(c, r) == NoCrLf(c) => Unfold(r) = c \o <<CR, LF>>

\* C8: when the content line of a Prop holds no CR and no LF, deleting
\* every CRLF-followed-by-one-space from the rendering gives the content
\* line followed by CRLF.
C8_UnfoldGivesContentLine ==
    IsSome(rendered) => UnfoldsTo(ContentLine(Unwrap(prop)), Unwrap(rendered))

\* A rendering folded twice, of a Prop with a parameter, that unfolds to
\* its content line.
C8_Witness ==
    /\ IsSome(rendered)
    /\ Len(Unwrap(prop).params) = 1
    /\ Cardinality(FoldsOf(Unwrap(rendered))) = 2
    /\ NoCrLf(ContentLine(Unwrap(prop)))
    /\ Unfold(Unwrap(rendered)) = ContentLine(Unwrap(prop)) \o <<CR, LF>>

\* The fold at f was needed: the character after it did not fit the line.
FoldNeeded(r, folds, f) ==
    EncodedOctets(r, LineStart(folds, f - 1), f - 1) + OctetsOfChar(r[f + 3])
        > MAX_LINE_LEN
\* The running count of the line that starts at s, a fold's space
\* included, never passes 75.
CountWithinLimit(r, folds, s) ==
    EncodedOctets(r, s, LineEnd(folds, s, r)) <= MAX_LINE_LEN
\* The physical line that starts at s, its CRLF excluded, has at most 75
\* octets.
LineWithinLimit(r, breaks, s) ==
    EncodedOctets(r, s, LineEnd(breaks, s, r)) <= MAX_LINE_LEN
SingleByte(text) == \A i \in 1..Len(text) : text[i] <= 127

\* C9's statement about a content line c and its rendering r.
FoldedAtLimit(c, r) ==
    /\ \A f \in FoldsOf(r) : FoldNeeded(r, FoldsOf(r), f)
    /\ \A s \in LineStarts(FoldsOf(r), r) : CountWithinLimit(r, FoldsOf(r), s)
    /\ (SingleByte(c) /\ Len(c) > MAX_LINE_LEN) =>
           SubSeq(r, 1, MAX_LINE_LEN + 3)
               = SubSeq(c, 1, MAX_LINE_LEN) \o <<CR, LF, Space>>
    /\ \A s \in LineStarts(BreaksOf(r), r) : LineWithinLimit(r, BreaksOf(r), s)

\* C9: a fold stands before a character exactly when the character's UTF-8
\* length would take the running octet count of the line past 75, the
\* count of the new line starting at that length plus 1 for the space; a
\* single-byte content line of more than 75 octets is first split after
\* exactly 75 of them, no physical line exceeds 75 octets, and a character
\* of several octets moves to the new line whole.
C9_FoldExactlyAtLimit ==
    IsSome(rendered) => FoldedAtLimit(ContentLine(Unwrap(prop)), Unwrap(rendered))

\* A rendering folded twice where the first fold stands before the euro
\* sign (three octets) after a line of 74 octets.
C9_Witness ==
    /\ IsSome(rendered)
    /\ Cardinality(FoldsOf(Unwrap(rendered))) = 2
    /\ IsFoldAt(Unwrap(rendered), MAX_LINE_LEN)
    /\ Unwrap(rendered)[MAX_LINE_LEN + 3] = 8364
    /\ EncodedOctets(Unwrap(rendered), 1, MAX_LINE_LEN - 1) = MAX_LINE_LEN - 1

(***************************************************************************)
(* RFC 5545 section 3.3.11 read off a stored value                         *)
(***************************************************************************)

\* One input character escaped once.
EscapeChar(ch) ==
    IF ch = Backslash THEN <<Backslash, Backslash>>
    ELSE IF ch = Semicolon THEN <<Backslash, Semicolon>>
    ELSE IF ch = Comma THEN <<Backslash, Comma>>
    ELSE IF ch = LF THEN <<Backslash, LowerN>>
    ELSE <<ch>>
EscapeOnce(text) == Concat([i \in 1..Len(text) |-> EscapeChar(text[i])])
EscapeEach(texts) == [i \in 1..Len(texts) |-> EscapeOnce(texts[i])]

\* The number of consecutive backslashes that end at position i.
RECURSIVE BackslashRun(_, _)
BackslashRun(text, i) ==
    IF i < 1 \/ text[i] # Backslash THEN 0 ELSE 1 + BackslashRun(text, i - 1)

\* The commas of a value that no escaping backslash precedes.
BareCommas(value) ==
    {i \in 1..Len(value) : value[i] = Comma /\ BackslashRun(value, i - 1) % 2 = 0}
\* Where the separators of the comma-join of the texts stand.
Separators(texts) ==
    {Len(Join(SubSeq(texts, 1, k), <<Comma>>)) + 1 : k \in 1..(Len(texts) - 1)}

\* C10's statement about the input strings and the stored value.
EscapedOnceAndJoined(values, value) ==
    /\ value = Join(EscapeEach(values), <<Comma>>)
    /\ BareCommas(value) = Separators(EscapeEach(values))

\* C10: Prop::text stores the comma-join of the input strings, each with
\* every backslash, ';', ',' and newline escaped exactly once, so that the
\* commas no escaping backslash precedes are exactly the separators.
C10_TextEscapedOnce ==
    (IsSome(prop) /\ IsSome(args)) =>
        EscapedOnceAndJoined(Unwrap(args), Unwrap(prop).value)

\* Prop::text of a backslash and a comma, then a newline: three
\* backslashes, an escaped comma, the separator, an escaped newline.
C10_Witness ==
    /\ IsSome(prop)
    /\ args = Some(<<(<<Backslash, Comma>>), (<<LF>>)>>)
    /\ Unwrap(prop).value
         = <<Backslash, Backslash, Backslash, Comma, Comma, Backslash, LowerN>>

(***************************************************************************)
(* Text values of an Event in its Component                                *)
(***************************************************************************)

\* PropHolder::first_prop: the first property of that name, if any.
PropIndexes(c, name) == {i \in 1..Len(c.props) : c.props[i].name = name}
first_prop(c, name) ==
    IF PropIndexes(c, name) = {} THEN None
    ELSE Some(c.props[Min(PropIndexes(c, name))])

\* The property of that name holds the escaped form of the text, when the
\* Event has the text.
HoldsEscaped(c, name, text) ==
    IsSome(text) =>
        /\ IsSome(first_prop(c, name))
        /\ Unwrap(first_prop(c, name)).value = EscapeOnce(Unwrap(text))

\* C11: the SUMMARY, DESCRIPTION and LOCATION values of the Component of an
\* Event are the escaped forms of the Event's summary, description and
\* location, as the UID value is the escaped form of its uid.
C11_EventTextsEscaped ==
    IsSome(component) =>
        /\ HoldsEscaped(Unwrap(component), "UID", Some(Unwrap(event).uid))
        /\ HoldsEscaped(Unwrap(component), "SUMMARY", Unwrap(event).summary)
        /\ HoldsEscaped(Unwrap(component), "DESCRIPTION", Unwrap(event).description)
        /\ HoldsEscaped(Unwrap(component), "LOCATION", Unwrap(event).location)

(***************************************************************************)
(* ical/mod.rs: the parameters of a Prop                                   *)
(***************************************************************************)

MaxParamValues == 2

\* The values Param::new is given: empty, "a" and a text that is a quote.
ParamTexts == {<<>>, <<97>>, <<Quote>>}
ParamValueLists == SeqsUpTo(ParamTexts, MaxParamValues)
ParamNames == {"ROW", "TZID"}
\* The values Prop::new is given here: "v" and a quoted "v".
QuotableValues == {<<118>>, <<Quote, 118, Quote>>}

ParamPanic == "Parameter value cannot contain double quotes"

InitParam ==
    /\ prop = None /\ args = None /\ rendered = None /\ panicked = ""
    /\ IdleProcess /\ IdleId /\ IdleEvent /\ IdleCalendar /\ IdleRecurrence /\ IdleParse

ParamUnchanged == UNCHANGED <<procVars, idVars, eventVars, calVars, recVars, parseVars>>

\* Prop::new(name, value)
ParamPropNew ==
    /\ prop = None
    /\ \E value \in QuotableValues : prop' = Some(PropNew("A", value))
    /\ UNCHANGED <<args, rendered, panicked>> /\ ParamUnchanged

\* Prop::date_time(name, date_time)
ParamPropDateTime ==
    /\ prop = None
    /\ \E tz \in TimeZones :
        prop' = Some(PropDateTime("DTSTART", WithTimezone(FirstLecture, tz)))
    /\ UNCHANGED <<args, rendered, panicked>> /\ ParamUnchanged

\* prop.params_mut().push(Param::new(name, values)): the assertion of
\* Param::new fails before anything is pushed.
ParamNewPush ==
    /\ IsSome(prop) /\ rendered = None /\ panicked = ""
    /\ Len(Unwrap(prop).params) <= MaxParams
    /\ \E name \in ParamNames, values \in ParamValueLists :
        /\ args' = Some([name |-> name, values |-> values])
        /\ IF IsNone(ParamNew(name, values))
           THEN panicked' = ParamPanic /\ UNCHANGED prop
           ELSE /\ prop' = Some(PropPushParam(Unwrap(prop), Unwrap(ParamNew(name, values))))
                /\ UNCHANGED panicked
    /\ UNCHANGED rendered /\ ParamUnchanged

\* prop.params_mut().pop()
ParamsMutPop ==
    /\ IsSome(prop) /\ rendered = None /\ panicked = ""
    /\ Unwrap(prop).params # <<>>
    /\ prop' = Some([Unwrap(prop) EXCEPT
                        !.params = SubSeq(@, 1, Len(@) - 1)])
    /\ UNCHANGED <<args, rendered, panicked>> /\ ParamUnchanged

\* prop.to_string()
ParamPropFmt ==
    /\ IsSome(prop) /\ rendered = None /\ panicked = ""
    /\ rendered' = Some(PropToString(Unwrap(prop)))
    /\ UNCHANGED <<prop, args, panicked>> /\ ParamUnchanged

NextParam ==
    ParamPropNew \/ ParamPropDateTime \/ ParamNewPush \/ ParamsMutPop \/ ParamPropFmt

SpecParam == InitParam /\ [][NextParam]_vars

HasQuote(text) == \E j \in 1..Len(text) : text[j] = Quote
AnyHasQuote(values) == \E i \in 1..Len(values) : HasQuote(values[i])

\* A parameter as RFC 5545 writes it: ;NAME= and each value between its
\* own two quotes, the values separated by commas.
QuotedParam(param) ==
    <<Semicolon>> \o Chars(param.name) \o <<Equals>>
        \o Join([i \in 1..Len(param.values) |-> <<Quote>> \o param.values[i] \o <<Quote>>],
                <<Comma>>)
QuotedParams(p) == Concat([i \in 1..Len(p.params) |-> QuotedParam(p.params[i])])

\* No parameter of the Prop holds a value with a quote.
ParamsQuoteFree(p) == \A i \in 1..Len(p.params) : ~AnyHasQuote(p.params[i].values)
\* The rendering of a Prop whose parameters all have a value shows each
\* value between its own two quotes.
RenderedQuoted(p, r) ==
    (\A i \in 1..Len(p.params) : p.params[i].values # <<>>) =>
        Unfold(r) = Chars(p.name) \o QuotedParams(p) \o <<Colon>> \o p.value \o <<CR, LF>>

\* C12: no Param value ever contains a double quote: Param::new fails
\* fatally when one of its values does and builds the Param unchanged
\* otherwise, nothing done through params_mut or Prop::date_time puts a
\* quote-bearing value in a Param, and every rendered parameter value
\* stands between exactly its own two quotes.
C12_NoQuoteInParamValue ==
    /\ [](IsSome(prop) => ParamsQuoteFree(Unwrap(prop)))
    /\ [](IsSome(rendered) =>
             /\ ParamsQuoteFree(Unwrap(prop))
             /\ RenderedQuoted(Unwrap(prop), Unwrap(rendered)))
    /\ [][ParamNewPush =>
            IF AnyHasQuote(Unwrap(args').values)
            THEN panicked' = ParamPanic /\ prop' = prop
            ELSE /\ panicked' = ""
                 /\ Unwrap(prop').params
                      = Append(Unwrap(prop).params,
                               [name |-> Unwrap(args').name,
                                values |-> Unwrap(args').values])]_vars

\* Param::new was given "a" and a quote and failed; the Prop, made by
\* Prop::date_time, keeps its one parameter.
C12_Witness ==
    /\ panicked = ParamPanic
    /\ args = Some([name |-> "ROW", values |-> <<(<<97>>), (<<Quote>>)>>])
    /\ IsSome(prop)
    /\ Len(Unwrap(prop).params) = 1
    /\ Unwrap(prop).params[1].name = "TZID"

(***************************************************************************)
(* ical/components.rs: building and rendering a Recurrence                 *)
(***************************************************************************)

TimeUnits == {"Second", "Minute", "Hour", "Day", "Week", "Month", "Year"}
\* The counts and intervals given (u32), and the instants given to until:
\* the last lecture, in winter time, and the instant of the test
\* display_recurrence, in summer time.
MaxCount == 3
Counts == 0..MaxCount
Untils ==
    {LastLecture,
     DateTimeOf(DaysFromCivil(2022, 8, 19) * SecondsPerDay + 20 * 3600 + 30 * 60 + 15,
                UC3M_TIMEZONE)}

CountPanic == "recurrence count must be positive"
IntervalPanic == "recurrence interval must be positive"

InitRecurrence ==
    /\ rec = None /\ rule_text = None /\ args = None /\ panicked = ""
    /\ prop = None /\ rendered = None
    /\ IdleProcess /\ IdleId /\ IdleEvent /\ IdleCalendar /\ IdleParse

RecurrenceUnchanged ==
    UNCHANGED <<procVars, idVars, eventVars, calVars, parseVars, prop, rendered>>

\* Recurrence::until(frequency, until)
RecurrenceUntilCall ==
    /\ rec = None /\ panicked = ""
    /\ \E frequency \in TimeUnits, until \in Untils :
        rec' = Some(RecurrenceUntil(frequency, until))
    /\ UNCHANGED <<rule_text, args, panicked>> /\ RecurrenceUnchanged

\* Recurrence::times(frequency, count)
RecurrenceTimesCall ==
    /\ rec = None /\ panicked = ""
    /\ \E frequency \in TimeUnits, count \in Counts :
        /\ args' = Some(count)
        /\ IF IsNone(RecurrenceTimes(frequency, count))
           THEN panicked' = CountPanic /\ UNCHANGED rec
           ELSE rec' = RecurrenceTimes(frequency, count) /\ UNCHANGED panicked
    /\ UNCHANGED rule_text /\ RecurrenceUnchanged

\* rule.interval(interval)
RecurrenceIntervalCall ==
    /\ IsSome(rec) /\ rule_text = None /\ panicked = ""
    /\ \E interval \in Counts :
        /\ args' = Some(interval)
        /\ IF IsNone(RecurrenceInterval(Unwrap(rec), interval))
           THEN panicked' = IntervalPanic /\ UNCHANGED rec
           ELSE rec' = RecurrenceInterval(Unwrap(rec), interval) /\ UNCHANGED panicked
    /\ UNCHANGED rule_text /\ RecurrenceUnchanged

\* rule.to_string()
RecurrenceFmt ==
    /\ IsSome(rec) /\ rule_text = None /\ panicked = ""
    /\ rule_text' = Some(RecurrenceToString(Unwrap(rec)))
    /\ UNCHANGED <<rec, args, panicked>> /\ RecurrenceUnchanged

NextRecurrence ==
    RecurrenceUntilCall \/ RecurrenceTimesCall \/ RecurrenceIntervalCall \/ RecurrenceFmt

SpecRecurrence == InitRecurrence /\ [][NextRecurrence]_vars

\* A rule has exactly one of until and count, and no count or interval
\* below 1.
WellFormedRule(rule) ==
    /\ IsSome(rule.until) # IsSome(rule.count)
    /\ IsSome(rule.count) => Unwrap(rule.count) >= 1
    /\ IsSome(rule.interval) => Unwrap(rule.interval) >= 1

\* C13: every Recurrence built by until, times and interval has exactly one
\* of until and count, and any count or interval it holds is at least 1:
\* times with count 0 and interval with 0 fail fatally, and interval
\* changes neither frequency nor until nor count.
C13_RecurrenceWellFormed ==
    /\ [](IsSome(rec) => WellFormedRule(Unwrap(rec)))
    /\ [][RecurrenceTimesCall =>
            IF Unwrap(args') = 0
            THEN panicked' = CountPanic /\ rec' = None
            ELSE panicked' = "" /\ Unwrap(rec').count = args' /\ IsNone(Unwrap(rec').until)]_vars
    /\ [][RecurrenceIntervalCall =>
            IF Unwrap(args') = 0
            THEN panicked' = IntervalPanic /\ rec' = rec
            ELSE /\ panicked' = ""
                 /\ rec' = Some([Unwrap(rec) EXCEPT !.interval = args'])]_vars

\* interval(0) failed on a rule made by until that had interval 2.
C13_Witness ==
    /\ panicked = IntervalPanic
    /\ args = Some(0)
    /\ IsSome(rec)
    /\ IsSome(Unwrap(rec).until)
    /\ Unwrap(rec).interval = Some(2)

\* The keyword of a TimeUnit in an RRULE (RFC 5545 section 3.3.10).
FreqKeyword(unit) ==
    CASE unit = "Second" -> <<83, 69, 67, 79, 78, 68, 76, 89>>
      [] unit = "Minute" -> <<77, 73, 78, 85, 84, 69, 76, 89>>
      [] unit = "Hour" -> <<72, 79, 85, 82, 76, 89>>
      [] unit = "Day" -> <<68, 65, 73, 76, 89>>
      [] unit = "Week" -> <<87, 69, 69, 75, 76, 89>>
      [] unit = "Month" -> <<77, 79, 78, 84, 72, 76, 89>>
      [] unit = "Year" -> <<89, 69, 65, 82, 76, 89>>

\* An instant as YYYYMMDDTHHMMSS of its UTC date and time.
UtcStamp(utc) == FormatFields(FieldsOfLocal(utc))

Contains(text, part) ==
    \E i \in 1..(Len(text) - Len(part) + 1) : SubSeq(text, i, i + Len(part) - 1) = part

\* C14's statement about a rule and its rendering.
RendersAsRule(rule, text) ==
    /\ text = <<70, 82, 69, 81, 61>> \o FreqKeyword(rule.frequency)
                \o (IF IsSome(rule.until)
                    THEN <<59, 85, 78, 84, 73, 76, 61>> \o UtcStamp(Unwrap(rule.until).utc)
                    ELSE <<59, 67, 79, 85, 78, 84, 61>> \o NatToString(Unwrap(rule.count)))
                \o (IF IsSome(rule.interval)
                    THEN <<59, 73, 78, 84, 69, 82, 86, 65, 76, 61>>
                             \o NatToString(Unwrap(rule.interval))
                    ELSE <<>>)
    /\ Contains(text, <<59, 85, 78, 84, 73, 76, 61>>)
         # Contains(text, <<59, 67, 79, 85, 78, 84, 61>>)
    /\ Contains(text, <<59, 73, 78, 84, 69, 82, 86, 65, 76, 61>>) <=> IsSome(rule.interval)

\* C14: a Recurrence renders as FREQ= and the keyword of its TimeUnit, then
\* ;UNTIL= and the until instant in UTC as YYYYMMDDTHHMMSS when it was
\* built with until or ;COUNT= and the count when built with times, never
\* both and never neither, then ;INTERVAL= and the interval if and only
\* if one was set.
C14_RecurrenceRendering ==
    IsSome(rule_text) => RendersAsRule(Unwrap(rec), Unwrap(rule_text))

\* The weekly rule until the last lecture, 2022-12-19 11:00 in Madrid,
\* with interval 2: FREQ=WEEKLY;UNTIL=20221219T100000;INTERVAL=2.
C14_Witness ==
    /\ IsSome(rec)
    /\ Unwrap(rec).until = Some(LastLecture)
    /\ rule_text = Some(<<70, 82, 69, 81, 61, 87, 69, 69, 75, 76, 89,
                          59, 85, 78, 84, 73, 76, 61,
                          50, 48, 50, 50, 49, 50, 49, 57, 84, 49, 48, 48, 48, 48, 48,
                          59, 73, 78, 84, 69, 82, 86, 65, 76, 61, 50>>)


(***************************************************************************)
(* parse.rs: the parser of the timetable page.  A node of the document is  *)
(* a text node or an element with a class, a rowspan attribute and child   *)
(* nodes; a selector is the class it asks for.                             *)
(***************************************************************************)

PRODUCT_NAME ==
    <<117, 99, 51, 109, 45, 116, 105, 109, 101, 116, 97, 98, 108, 101, 46,
      104, 117, 103, 109, 97, 110, 114, 105, 113, 117, 101, 46, 109, 101>>
SPEC_VERSION == <<50, 46, 48>>

TIMETABLE_SELECTOR == "timetable>tbody"
TIME_SELECTOR == "cabeceraHora"
GROUP_SELECTOR == "asignaturaGrupo"
SESSION_SELECTOR == "fechasSesion"

FullStop == 46
At == 64

TextNode(text) ==
    [elem |-> FALSE, class |-> "", rowspan |-> None, text |-> text, children |-> <<>>]
ElemNode(class, rowspan, children) ==
    [elem |-> TRUE, class |-> class, rowspan |-> rowspan, text |-> <<>>,
     children |-> children]

\* The descendants of nodes, in document order.
RECURSIVE Traverse(_)
Traverse(nodes) ==
    IF nodes = <<>> THEN <<>>
    ELSE <<Head(nodes)>> \o Traverse(Head(nodes).children) \o Traverse(Tail(nodes))

\* ElementRef::select(selector): the matching descendants, in document order.
select(elem, selector) ==
    SelectSeq(Traverse(elem.children), LAMBDA n : n.elem /\ n.class = selector)

\* A Result<T, ParseError>, or the panic that ended the call.
ParseOk(v) == [kind |-> "Ok", val |-> v, err |-> ""]
ParseErr(e) == [kind |-> "Err", val |-> <<>>, err |-> e]
ParsePanic(message) == [kind |-> "Panic", val |-> <<>>, err |-> message]

\* The same for a function that pushes to dest: Vec<Event>.
Pushed(kind, dest, err) == [kind |-> kind, events |-> dest, err |-> err]

\* str::trim_end_matches(ch)
RECURSIVE trim_end_matches(_, _)
trim_end_matches(text, ch) ==
    IF text # <<>> /\ text[Len(text)] = ch
    THEN trim_end_matches(SubSeq(text, 1, Len(text) - 1), ch)
    ELSE text

\* str::split_once(ch): the text before and after the first ch.
SplitAt(text, at) == Some(<<SubSeq(text, 1, at - 1), SubSeq(text, at + 1, Len(text))>>)
split_once(text, ch) ==
    IF \A i \in 1..Len(text) : text[i] # ch THEN None
    ELSE SplitAt(text, CHOOSE i \in 1..Len(text) :
                         text[i] = ch /\ \A j \in 1..(i - 1) : text[j] # ch)

\* The match of parse_date: the number of a month, 0 for the _ arm.
MonthNumber(month) ==
    CASE month = <<101, 110, 101>> -> 1
      [] month = <<102, 101, 98>> -> 2
      [] month = <<109, 97, 114>> -> 3
      [] month = <<97, 98, 114>> -> 4
      [] month = <<109, 97, 121>> -> 5
      [] month = <<106, 117, 110>> -> 6
      [] month = <<106, 117, 108>> -> 7
      [] month = <<97, 103, 111>> -> 8
      [] month = <<115, 101, 112>> -> 9
      [] month = <<111, 99, 116>> -> 10
      [] month = <<110, 111, 118>> -> 11
      [] month = <<100, 105, 99>> -> 12
      [] OTHER -> 0

\* Whether Utc.ymd(y, m, d) is a date of the calendar; it panics otherwise.
ValidDate(y, m, d) ==
    /\ d >= 1 /\ d <= 31
    /\ CivilFromDays(DaysFromCivil(y, m, d)) = [year |-> y, month |-> m, day |-> d]

\* Utc.ymd(year, month, day).with_timezone(time_zone): a Date<Tz>.
DateOfParts(time_table, day, month) ==
    IF IsNone(day) THEN ParseErr("InvalidDay")
    ELSE IF month = 0 THEN ParseErr("InvalidMonth")
    ELSE IF ~ValidDate(time_table.year, month, Unwrap(day))
    THEN ParsePanic("No such local time")
    ELSE ParseOk([days |-> DaysFromCivil(time_table.year, month, Unwrap(day)),
                  tz |-> time_table.time_zone])

\* Cell::parse_date. The day is a u32; the texts of the model stay below 2^31.
DateOfSplit(time_table, parts) ==
    IF IsNone(parts) THEN ParseErr("InvalidDateFormat")
    ELSE DateOfParts(time_table, ParseInt(Unwrap(parts)[1], 0, I32Max),
                     MonthNumber(Unwrap(parts)[2]))
parse_date(time_table, date) == DateOfSplit(time_table, split_once(date, FullStop))

\* Cell::parse_date_range
SameDate(date) == IF date.kind # "Ok" THEN date ELSE ParseOk(<<date.val, date.val>>)
DatePairEnd(start_date, end_date) ==
    IF end_date.kind # "Ok" THEN end_date ELSE ParseOk(<<start_date, end_date.val>>)
DatePair(time_table, start_date, end_text) ==
    IF start_date.kind # "Ok" THEN start_date
    ELSE DatePairEnd(start_date.val, parse_date(time_table, end_text))
RangeOfSplit(time_table, range, parts) ==
    IF IsNone(parts) THEN SameDate(parse_date(time_table, range))
    ELSE DatePair(time_table, parse_date(time_table, Unwrap(parts)[1]), Unwrap(parts)[2])
parse_date_range(time_table, range) ==
    RangeOfSplit(time_table, range, split_once(range, Minus))

\* TimeZone::from_local_datetime(local).single(): the one instant whose
\* local time in the zone is local; None in the hour the clocks skip and
\* in the hour they repeat.
LocalInstants(tz, local) ==
    {utc \in {local, local - 3600, local - 7200} : utc + UtcOffset(tz, utc) = local}
from_local_datetime(tz, local) ==
    IF Cardinality(LocalInstants(tz, local)) = 1
    THEN Some(DateTimeOf(CHOOSE utc \in LocalInstants(tz, local) : TRUE, tz))
    ELSE None

\* Date<Tz>::and_time(time), time in seconds since midnight.
and_time_utc(date, time) == Some(DateTimeOf(date.days * SecondsPerDay + time, date.tz))
and_time(date, time) == from_local_datetime(date.tz, date.days * SecondsPerDay + time)

\* Cell::parse_session, from the end: the recurrence, the event, the start
\* instant, the location, the dates and the raw range.
RecurringEvent(e, end_datetime) ==
    IF IsNone(end_datetime) THEN ParseErr("InvalidEndDate")
    ELSE ParseOk([e EXCEPT !.recurrence = Some(RecurrenceUntil("Week", Unwrap(end_datetime)))])

SessionAlwaysRecurs(cell, dates, e) ==
    RecurringEvent(e, and_time(dates[2], cell.start_time))
SessionEvent(cell, dates, e) ==
    IF dates[1].days = dates[2].days THEN ParseOk(e)
    ELSE RecurringEvent(e, and_time(dates[2], cell.start_time))

SessionUidOfRange(course_name, raw_range) == raw_range \o <<At>> \o PRODUCT_NAME
SessionUid(course_name, raw_range) ==
    course_name \o <<Minus>> \o raw_range \o <<At>> \o PRODUCT_NAME

SessionOfStart(cell, raw_range, dates, start_datetime, location, course_name) ==
    IF IsNone(start_datetime) THEN ParseErr("InvalidStartDate")
    ELSE IF ~(cell.duration > 0) THEN ParsePanic("event duration must be positive")
    ELSE SessionEvent(cell, dates,
            [EventNew(SessionUid(course_name, raw_range), cell.created_on,
                      Unwrap(start_datetime))
                EXCEPT !.summary = Some(course_name),
                       !.location = Some(location),
                       !.duration = Some(cell.duration)])

SessionOfDates(cell, raw_range, dates, location_span, course_name) ==
    IF dates.kind # "Ok" THEN dates
    ELSE IF location_span.children = <<>> THEN ParseErr("MissingLocationSpan")
    ELSE IF location_span.children[1].elem THEN ParseErr("NonTextualLocationSpan")
    ELSE SessionOfStart(cell, raw_range, dates.val,
                        and_time(dates.val[1], cell.start_time),
                        location_span.children[1].text, course_name)

SessionOfRange(cell, raw_range, location_span, course_name) ==
    SessionOfDates(cell, raw_range, parse_date_range(cell.time_table, raw_range),
                   location_span, course_name)

parse_session(cell, date_range_span, location_span, course_name) ==
    IF date_range_span.children = <<>> THEN ParseErr("MissingDateRange")
    ELSE IF date_range_span.children[1].elem THEN ParseErr("NonTextualDateRange")
    ELSE SessionOfRange(cell, trim_end_matches(date_range_span.children[1].text, Colon),
                        location_span, course_name)

\* The closure of push_sessions, given the first two nodes of a tuple.
SessionOfTuple(cell, course_name, date_range_span, location_span) ==
    IF ~date_range_span.elem THEN ParseErr("NonElementSessionDateNode")
    ELSE IF ~location_span.elem THEN ParseErr("NonElementSessionLocationNode")
    ELSE parse_session(cell, date_range_span, location_span, course_name)

\* Itertools::tuples of three: the nodes left over at the end are dropped.
TupleSize == 3

\* dest.extend(events): the events of the tuples up to the first Err,
\* which process() keeps as the result.
RECURSIVE ExtendSessions(_, _, _, _, _)
SessionPushed(cell, course_name, session_elems, k, dest, session) ==
    IF session.kind = "Ok"
    THEN ExtendSessions(cell, course_name, session_elems, k + 1, Append(dest, session.val))
    ELSE Pushed(session.kind, dest, session.err)
ExtendSessions(cell, course_name, session_elems, k, dest) ==
    IF TupleSize * k > Len(session_elems) THEN Pushed("Ok", dest, "")
    ELSE SessionPushed(cell, course_name, session_elems, k, dest,
            SessionOfTuple(cell, course_name,
                           session_elems[TupleSize * (k - 1) + 1],
                           session_elems[TupleSize * (k - 1) + 2]))

\* Cell::push_sessions
push_sessions(cell, dest) ==
    IF cell.group_elem.children = <<>> THEN Pushed("Err", dest, "ChildlessGroupElem")
    ELSE IF cell.group_elem.children[1].elem
    THEN Pushed("Err", dest, "NonTextualGroupChild")
    ELSE IF select(cell.group_elem, SESSION_SELECTOR) = <<>>
    THEN Pushed("Err", dest, "MissingSessionsElem")
    ELSE ExtendSessions(cell, cell.group_elem.children[1].text,
                        Head(select(cell.group_elem, SESSION_SELECTOR)).children, 1, dest)

\* Duration::minutes(15), in seconds.
QuarterHour == 900

\* Cell::new. The rowspan is an i32, 1 where the attribute is missing.
CellOfSpan(p, start_time, elem, span) ==
    IF IsNone(span) THEN ParseErr("InvalidRowSpan")
    ELSE IF select(elem, GROUP_SELECTOR) = <<>> THEN ParseErr("MissingGroupElem")
    ELSE ParseOk([time_table |-> p.time_table, created_on |-> p.created_on,
                  start_time |-> start_time, duration |-> QuarterHour * Unwrap(span),
                  group_elem |-> Head(select(elem, GROUP_SELECTOR))])
CellNewSpanOne(p, start_time, elem) == CellOfSpan(p, start_time, elem, Some(1))
CellNew(p, start_time, elem) ==
    CellOfSpan(p, start_time, elem,
               IF IsNone(elem.rowspan) THEN Some(1)
               ELSE ParseInt(Unwrap(elem.rowspan), 0 - I32Max - 1, I32Max))

\* get_time_text. The value is a u32; the texts of the model stay below 2^31.
TimeOfText(value) ==
    IF IsNone(value) THEN ParseErr("NonNumericTimeValue") ELSE ParseOk(Unwrap(value))
get_time_text(elem) ==
    IF elem.children = <<>> THEN ParseErr("ChildlessTimeElement")
    ELSE IF elem.children[1].elem THEN ParseErr("NonTextualTimeNode")
    ELSE TimeOfText(ParseInt(elem.children[1].text, 0, I32Max))

\* The loop of parse_row over process(cell_elems.map(Cell::new)): the
\* adapter is lazy, a cell is made when the loop asks for it, after the
\* sessions of the cell before it were pushed.
RECURSIVE RowCells(_, _, _, _, _)
CellDoneSkipping(p, start_time, cell_elems, k, pushed) ==
    RowCells(p, start_time, cell_elems, k + 1, pushed.events)
CellDone(p, start_time, cell_elems, k, pushed) ==
    IF pushed.kind # "Ok" THEN pushed
    ELSE RowCells(p, start_time, cell_elems, k + 1, pushed.events)
CellPushed(p, start_time, cell_elems, k, dest, cell) ==
    IF cell.kind # "Ok" THEN Pushed(cell.kind, dest, cell.err)
    ELSE CellDone(p, start_time, cell_elems, k, push_sessions(cell.val, dest))
RowCells(p, start_time, cell_elems, k, dest) ==
    IF k > Len(cell_elems) THEN Pushed("Ok", dest, "")
    ELSE CellPushed(p, start_time, cell_elems, k, dest,
                    CellNew(p, start_time, cell_elems[k]))

\* NaiveTime::from_hms(hour, minutes, 0), in seconds since midnight; it
\* panics on an hour or a minute that no time of day has.
ValidTime(hour, minutes) == hour < 24 /\ minutes < 60
from_hms(hour, minutes) == hour * 3600 + minutes * 60

\* Parser::parse_row
RowOfTime(p, row_elem, dest, hour, minutes) ==
    IF minutes.kind # "Ok" THEN Pushed(minutes.kind, dest, minutes.err)
    ELSE IF ~ValidTime(hour, minutes.val) THEN Pushed("Panic", dest, "invalid time")
    ELSE RowCells(p, from_hms(hour, minutes.val),
                  SelectSeq(row_elem.children,
                            LAMBDA n : n.elem /\ n.class = "celdaConSesion"),
                  1, dest)
RowOfHour(p, row_elem, dest, time_elem, hour) ==
    IF hour.kind # "Ok" THEN Pushed(hour.kind, dest, hour.err)
    ELSE IF ~time_elem.children[Len(time_elem.children)].elem
    THEN Pushed("Err", dest, "NonElementMinutesNode")
    ELSE RowOfTime(p, row_elem, dest, hour.val,
                   get_time_text(time_elem.children[Len(time_elem.children)]))
parse_row(p, row_elem, dest) ==
    IF select(row_elem, TIME_SELECTOR) = <<>> THEN Pushed("Err", dest, "MissingRowTimeCell")
    ELSE RowOfHour(p, row_elem, dest, Head(select(row_elem, TIME_SELECTOR)),
                   get_time_text(Head(select(row_elem, TIME_SELECTOR))))


\* Result<Timetable>: the fields of the Timetable, or the ParseError.
TimetableOk(time_table, made, created_on) ==
    [ok |-> TRUE, id |-> time_table, calendar |-> made, created_on |-> Some(created_on),
     err |-> ""]
TimetableErr(e) == [ok |-> FALSE, id |-> None, calendar |-> None, created_on |-> None, err |-> e]

\* Utc::now(), now seconds after the first instant of the model.
UtcNow(n) == DateTimeOf(LastModified.utc + n, "UTC")

\* The element children of the table body.
RowElems(input) ==
    SelectSeq(Head(select(input, TIMETABLE_SELECTOR)).children, LAMBDA n : n.elem)

\* The documents of the model. A time cell holds the hour as text and the
\* minutes in a <sup>; a session cell holds a group with the course name
\* and the list of sessions, three nodes each.
TimeElem(hour, minutes) ==
    ElemNode(TIME_SELECTOR, None,
             <<TextNode(hour), ElemNode("sup", None, <<TextNode(minutes)>>)>>)
Course == <<70, 105, 115, 105, 99, 97>>            \* "Fisica"
Room == <<52, 46, 49, 46, 69, 48, 52>>             \* "4.1.E04"
SessionTuple(range) ==
    <<ElemNode("fechas", None, <<TextNode(range)>>),
      ElemNode("aula", None, <<TextNode(Room)>>),
      ElemNode("br", None, <<>>)>>
SessionNodes(ranges, extra) ==
    Concat([i \in DOMAIN ranges |-> SessionTuple(ranges[i])])
        \o SubSeq(SessionTuple(<<50, 48, 46, 115, 101, 112>>), 1, extra)   \* "20.sep"
GroupElem(first, sessions) ==
    ElemNode(GROUP_SELECTOR, None, first \o sessions)
SessionList(nodes) == ElemNode(SESSION_SELECTOR, None, nodes)
CellElem(rowspan, nodes) ==
    ElemNode("celdaConSesion", rowspan,
             <<GroupElem(<<TextNode(Course)>>, <<SessionList(nodes)>>)>>)
RowElem(time_elems, cells) ==
    ElemNode("tr", None, time_elems \o <<ElemNode("celda", None, <<>>)>> \o cells)
Document(bodies) == ElemNode("html", None, bodies)
Body(rows) == ElemNode(TIMETABLE_SELECTOR, None, rows)

\* Bounds: the sessions of a cell, the rows of a body, the seconds of the clock.
MaxSessions == 2
MaxRows == 2
MaxNow == 1

Evening == <<<<49, 57>>, <<53, 50>>>>              \* 19:52
TimeTexts ==
    {Evening,
     <<<<50>>, <<51, 48>>>>,                       \* 2:30
     <<<<50, 52>>, <<53, 50>>>>,                   \* 24:52
     <<<<49, 57>>, <<54, 48>>>>,                   \* 19:60
     <<<<120>>, <<53, 50>>>>,                      \* x:52
     <<<<49, 57>>, <<120>>>>}                      \* 19:x
RowSpans ==
    {None, Some(<<49>>), Some(<<50>>), Some(<<48>>), Some(<<45, 49>>), Some(<<120>>)}
OneDay == <<49, 50, 46, 115, 101, 112, 58>>       \* "12.sep:"
Weekly == <<49, 50, 46, 115, 101, 112, 45, 49, 57, 46, 100, 105, 99, 58>>   \* "12.sep-19.dic:"
RangeTexts ==
    {OneDay, Weekly,
     <<49, 50, 46, 115, 101, 112, 45, 49, 50, 46, 115, 101, 112>>,  \* "12.sep-12.sep"
     <<51, 49, 46, 102, 101, 98>>,                                  \* "31.feb"
     <<50, 55, 46, 109, 97, 114>>,                                  \* "27.mar"
     <<49, 50, 46, 115, 101, 112, 45, 51, 48, 46, 111, 99, 116>>,   \* "12.sep-30.oct"
     <<49, 50, 46, 120, 121, 122>>,                                 \* "12.xyz"
     <<49, 50, 115, 101, 112>>,                                     \* "12sep"
     <<120, 46, 115, 101, 112>>,                                    \* "x.sep"
     <<50, 57, 46, 102, 101, 98>>,                                  \* "29.feb"
     <<49, 50, 46, 115, 101, 112, 45, 51, 49, 46, 110, 111, 118>>,  \* "12.sep-31.nov"
     <<45, 49, 50, 46, 115, 101, 112>>,                             \* "-12.sep"
     <<49, 57, 46, 100, 105, 99, 45, 49, 50, 46, 101, 110, 101>>}   \* "19.dic-12.ene"
RangeLists ==
    {<<range>> : range \in RangeTexts}
        \cup {[i \in 1..n |-> IF i % 2 = 1 THEN Weekly ELSE OneDay] : n \in 2..MaxSessions}

OneCellDocuments ==
    {Document(<<Body(<<RowElem(<<TimeElem(time[1], time[2])>>,
                               <<CellElem(rowspan, SessionNodes(ranges, extra))>>)>>)>>) :
        time \in TimeTexts, rowspan \in RowSpans, ranges \in RangeLists,
        extra \in 0..(TupleSize - 1)}

Lecture == CellElem(None, SessionNodes(<<OneDay>>, 0))
Morning == <<<<57>>, <<48, 48>>>>                  \* 9:00
ManyRowDocuments ==
    {Document(<<Body([i \in 1..n |->
                        RowElem(IF i % 2 = 1 THEN <<TimeElem(Evening[1], Evening[2])>>
                                ELSE <<TimeElem(Morning[1], Morning[2])>>, cells)])>>) :
        n \in 0..MaxRows, cells \in {<<>>, <<Lecture>>, <<Lecture, Lecture>>}}

Span(children) == ElemNode("fechas", None, children)
OddCells ==
    {ElemNode("celdaConSesion", None, <<>>),
     ElemNode("celdaConSesion", None, <<GroupElem(<<>>, <<>>)>>),
     ElemNode("celdaConSesion", None,
              <<GroupElem(<<SessionList(SessionTuple(OneDay))>>, <<>>)>>),
     ElemNode("celdaConSesion", None, <<GroupElem(<<TextNode(Course)>>, <<>>)>>)}
        \cup {CellElem(None, nodes) :
                nodes \in {<<TextNode(OneDay), Span(<<TextNode(Room)>>), Span(<<>>)>>,
                           <<Span(<<TextNode(OneDay)>>), TextNode(Room), Span(<<>>)>>,
                           <<Span(<<>>), Span(<<TextNode(Room)>>), Span(<<>>)>>,
                           <<Span(<<Span(<<>>)>>), Span(<<TextNode(Room)>>), Span(<<>>)>>,
                           <<Span(<<TextNode(OneDay)>>), Span(<<>>), Span(<<>>)>>,
                           <<Span(<<TextNode(OneDay)>>), Span(<<Span(<<>>)>>), Span(<<>>)>>}}
OddTimes ==
    {<<>>,
     <<ElemNode(TIME_SELECTOR, None, <<>>)>>,
     <<ElemNode(TIME_SELECTOR, None, <<Span(<<>>)>>)>>,
     <<ElemNode(TIME_SELECTOR, None, <<TextNode(Evening[1])>>)>>,
     <<ElemNode(TIME_SELECTOR, None, <<TextNode(Evening[1]), Span(<<>>)>>)>>,
     <<ElemNode(TIME_SELECTOR, None, <<TextNode(Evening[1]), Span(<<Span(<<>>)>>)>>)>>}
OddDocuments ==
    {Document(<<>>)}
        \cup {Document(<<Body(<<RowElem(<<TimeElem(Evening[1], Evening[2])>>,
                                        <<Lecture, cell>>)>>)>>) : cell \in OddCells}
        \cup {Document(<<Body(<<RowElem(time_elems, <<Lecture>>)>>)>>) :
                time_elems \in OddTimes}

TwoOddDocuments ==
    {Document(<<Body(<<RowElem(<<TimeElem(Evening[1], Evening[2])>>, <<Lecture, one, two>>),
                       RowElem(<<TimeElem(Evening[1], Evening[2])>>, <<Lecture>>)>>)>>) :
        one \in OddCells, two \in OddCells}

Documents == OneCellDocuments \cup ManyRowDocuments \cup OddDocuments \cup TwoOddDocuments

\* The identifiers: the test's, the same in UTC, and one of a leap year.
ParseIds ==
    {TimetableIdNew(2022, 433, 2, 4, 121, 1, UC3M_TIMEZONE),
     TimetableIdNew(2022, 433, 2, 4, 121, 1, "UTC"),
     TimetableIdNew(2024, 433, 2, 4, 121, 1, UC3M_TIMEZONE)}

InitParse ==
    /\ id \in {Some(x) : x \in ParseIds}
    /\ html \in Documents
    /\ now = 0 /\ parser = None /\ timetable = None /\ earlier = None
    /\ url = None /\ parsed = None
    /\ IdleProcess /\ IdleEvent /\ IdleCalendar /\ IdleProp /\ IdleRecurrence
    /\ panicked = ""

ParseUnchanged ==
    UNCHANGED <<procVars, idVars, eventVars, calVars, propVars, recVars, html>>

\* Whether a call of Timetable::parse is running.
Parsing == IsSome(parser) /\ IsNone(timetable) /\ panicked = ""

\* The clock moves on. A call reads it once, as it starts.
ClockTick ==
    /\ ~Parsing /\ panicked = ""
    /\ now < MaxNow
    /\ now' = now + 1
    /\ UNCHANGED <<parser, timetable, earlier, panicked>>
    /\ ParseUnchanged

\* Timetable::parse(id, &html) up to the loop of Parser::parse over the
\* rows: the first call, and a second one over the same document.
TimetableParse ==
    /\ panicked = ""
    /\ IsNone(parser) \/ (IsSome(timetable) /\ IsNone(earlier))
    /\ earlier' = parser
    /\ parser' = Some([time_table |-> Unwrap(id),
                       created_on |-> WithTimezone(UtcNow(now), Unwrap(id).time_zone),
                       rows |-> 0, events |-> <<>>])
    /\ timetable' = IF select(html, TIMETABLE_SELECTOR) = <<>>
                    THEN Some(TimetableErr("MissingTbodyElem"))
                    ELSE None
    /\ UNCHANGED <<now, panicked>>
    /\ ParseUnchanged

\* One turn of the loop: self.parse_row(row_elem, &mut events)?
ParseRow ==
    /\ Parsing
    /\ Unwrap(parser).rows < Len(RowElems(html))
    /\ LET pushed == parse_row(Unwrap(parser), RowElems(html)[Unwrap(parser).rows + 1],
                               Unwrap(parser).events)
       IN  CASE pushed.kind = "Ok" ->
                  /\ parser' = Some([Unwrap(parser) EXCEPT !.rows = @ + 1,
                                                           !.events = pushed.events])
                  /\ UNCHANGED <<timetable, panicked>>
             [] pushed.kind = "Err" ->
                  /\ parser' = Some([Unwrap(parser) EXCEPT !.events = pushed.events])
                  /\ timetable' = Some(TimetableErr(pushed.err))
                  /\ UNCHANGED panicked
             [] pushed.kind = "Panic" ->
                  /\ panicked' = pushed.err
                  /\ UNCHANGED <<parser, timetable>>
    /\ UNCHANGED <<now, earlier>>
    /\ ParseUnchanged

\* After the loop: the events become components and Calendar::new takes
\* them; Timetable::parse returns the Timetable.
ParseFinish ==
    /\ Parsing
    /\ Unwrap(parser).rows = Len(RowElems(html))
    /\ LET made == CalendarNew(PRODUCT_NAME, SPEC_VERSION,
                               [i \in DOMAIN Unwrap(parser).events |->
                                   ComponentFromEvent(Unwrap(parser).events[i])])
       IN  IF IsSome(made)
           THEN /\ timetable' = Some(TimetableOk(Unwrap(parser).time_table, made,
                                                 Unwrap(parser).created_on))
                /\ UNCHANGED panicked
           ELSE /\ panicked' = "calendar must have >= 1 components"
                /\ UNCHANGED timetable
    /\ UNCHANGED <<now, parser, earlier>>
    /\ ParseUnchanged

NextParse == ClockTick \/ TimetableParse \/ ParseRow \/ ParseFinish

SpecParse == InitParse /\ [][NextParse]_vars

\* C15: for every document with a timetable body, Timetable::parse
\* returns a Calendar or a ParseError and never fails fatally, whatever
\* the rowspan, the hour, the minute, the day of the month or the number
\* of session cells.
C15_ParseNeverFatal ==
    select(html, TIMETABLE_SELECTOR) # <<>> => panicked = ""

\* The sessions of a document that was parsed to the end, in document
\* order: the texts of the course name, the date range and the location
\* of every three nodes of every session cell, with the hour and the
\* minute of their row.
SessionsOfList(hour, minutes, course_name, list) ==
    [k \in 1..(Len(list) \div 3) |->
        [hour |-> hour, minutes |-> minutes, course_name |-> course_name,
         range |-> list[3 * k - 2].children[1].text,
         location |-> list[3 * k - 1].children[1].text]]
SessionsOfGroup(hour, minutes, group) ==
    SessionsOfList(hour, minutes, group.children[1].text,
                   Head(select(group, "fechasSesion")).children)
SessionsOfCells(hour, minutes, cells) ==
    Concat([k \in DOMAIN cells |->
              SessionsOfGroup(hour, minutes, Head(select(cells[k], "asignaturaGrupo")))])
SessionsOfTimeCell(time_cell, row) ==
    SessionsOfCells(time_cell.children[1].text,
                    time_cell.children[Len(time_cell.children)].children[1].text,
                    SelectSeq(row.children, LAMBDA n : n.elem /\ n.class = "celdaConSesion"))
SessionsOfRow(row) == SessionsOfTimeCell(Head(select(row, "cabeceraHora")), row)
SessionsOfRows(rows) == Concat([k \in DOMAIN rows |-> SessionsOfRow(rows[k])])
SessionsOfDocument(document) ==
    SessionsOfRows(SelectSeq(Head(select(document, "timetable>tbody")).children,
                             LAMBDA n : n.elem))

\* A text without the colons at its end.
RECURSIVE WithoutColons(_)
WithoutColons(text) ==
    IF text # <<>> /\ text[Len(text)] = 58 THEN WithoutColons(SubSeq(text, 1, Len(text) - 1))
    ELSE text

\* '<course name>-<date range>@uc3m-timetable.hugmanrique.me'
UidOfSession(session) ==
    session.course_name \o <<45>> \o WithoutColons(session.range) \o <<64>>
        \o <<117, 99, 51, 109, 45, 116, 105, 109, 101, 116, 97, 98, 108, 101, 46,
             104, 117, 103, 109, 97, 110, 114, 105, 113, 117, 101, 46, 109, 101>>

UidsOf(events) == [k \in DOMAIN events |-> events[k].uid]

\* A run of Timetable::parse that returned a Timetable.
Extracted == IsSome(timetable) /\ Unwrap(timetable).ok

\* C16: the UID of every extracted Event is its course name, '-', the raw
\* date range of its session (the text of the date-range node less the
\* colons at its end, as parse_session names it) and
\* '@uc3m-timetable.hugmanrique.me'; two runs over the same document at
\* different times give the same sequence of UIDs.
C16_UidFromSessionTexts ==
    Extracted =>
        /\ Len(Unwrap(parser).events) = Len(SessionsOfDocument(html))
        /\ \A k \in DOMAIN Unwrap(parser).events :
              Unwrap(parser).events[k].uid = UidOfSession(SessionsOfDocument(html)[k])
        /\ IsSome(earlier) =>
              UidsOf(Unwrap(earlier).events) = UidsOf(Unwrap(parser).events)

\* Two runs, a second apart, over the page with a weekly and a one-day
\* session: the same two UIDs under two DTSTAMPs.
C16_Witness ==
    /\ Extracted
    /\ IsSome(earlier)
    /\ Unwrap(earlier).created_on # Unwrap(parser).created_on
    /\ Unwrap(earlier).events[1].last_modified # Unwrap(parser).events[1].last_modified
    /\ Len(Unwrap(earlier).events) = 2
    /\ UidsOf(Unwrap(parser).events)
         = <<<<70, 105, 115, 105, 99, 97, 45, 49, 50, 46, 115, 101, 112, 45, 49, 57, 46,
               100, 105, 99, 64>> \o PRODUCT_NAME,
             <<70, 105, 115, 105, 99, 97, 45, 49, 50, 46, 115, 101, 112, 64>>
                \o PRODUCT_NAME>>

\* The documents of C17: one row at 19:52 with one session cell of rowspan
\* 1 (written out or left to the default) that holds one session of a
\* single day.
SingleDayRanges ==
    {<<49, 50, 46, 115, 101, 112, 58>>,                              \* "12.sep:"
     <<49, 50, 46, 115, 101, 112, 45, 49, 50, 46, 115, 101, 112>>,   \* "12.sep-12.sep"
     <<50, 55, 46, 109, 97, 114>>}                                   \* "27.mar"
SingleLectureDocuments ==
    {Document(<<Body(<<RowElem(<<TimeElem(<<49, 57>>, <<53, 50>>)>>,
                               <<CellElem(rowspan, SessionNodes(<<range>>, 0))>>)>>)>>) :
        rowspan \in {None, Some(<<49>>)}, range \in SingleDayRanges}
SingleLecture == html \in SingleLectureDocuments /\ Unwrap(id).year = 2022

\* The one Component of the Calendar that was returned, with DTSTART in
\* the time zone of the identifier and no RRULE.
OneEventInZone ==
    /\ Extracted
    /\ Len(Unwrap(parser).events) = 1
    /\ Len(Unwrap(Unwrap(timetable).calendar).components) = 1
    /\ IsSome(first_prop(Unwrap(Unwrap(timetable).calendar).components[1], "DTSTART"))
    /\ Unwrap(first_prop(Unwrap(Unwrap(timetable).calendar).components[1], "DTSTART")).params
         = <<[name |-> "TZID", values |-> <<(<<47>> \o TzName(Unwrap(id).time_zone))>>]>>
    /\ IsNone(first_prop(Unwrap(Unwrap(timetable).calendar).components[1], "RRULE"))

\* C17 as stated: the single lecture at 19:52 of a 2022 identifier gives
\* exactly one Event, whose Component has DTSTART in the time zone of the
\* identifier and neither DURATION nor RRULE.
C17_SingleLectureNoDuration ==
    (SingleLecture /\ IsSome(timetable)) =>
        /\ OneEventInZone
        /\ IsNone(first_prop(Unwrap(Unwrap(timetable).calendar).components[1], "DURATION"))

\* C17, amended: the Component has DTSTART in the time zone of the
\* identifier, the DURATION of one quarter of an hour, PT900S, and no RRULE;
\* and the call does not fail.
C17_SingleLectureQuarterHour ==
    SingleLecture =>
        /\ panicked = ""
        /\ IsSome(timetable) =>
              /\ OneEventInZone
              /\ first_prop(Unwrap(Unwrap(timetable).calendar).components[1], "DURATION")
                   = Some([name |-> "DURATION", params |-> <<>>,
                           value |-> <<80, 84, 57, 48, 48, 83>>])

\* The lecture of 12 September 2022 at 19:52 in Madrid, rowspan="1":
\* DTSTART;TZID=/Europe/Madrid:20220912T195200.
C17_Witness ==
    /\ SingleLecture
    /\ Extracted
    /\ Unwrap(id).time_zone = "Europe/Madrid"
    /\ RowElems(html)[1].children[3].rowspan = Some(<<49>>)
    /\ Unwrap(first_prop(Unwrap(Unwrap(timetable).calendar).components[1], "DTSTART")).value
         = <<50, 48, 50, 50, 48, 57, 49, 50, 84, 49, 57, 53, 50, 48, 48>>

\* The two sides of a date range, the same side twice where it has no
\* '-', each the day and the month it names.
DayAndMonth(parts) ==
    [day |-> Unwrap(ParseInt(parts[1], 0, 31)), month |-> MonthNumber(parts[2])]
SideOf(text) == DayAndMonth(Unwrap(split_once(text, 46)))
SidesOf(range) ==
    IF IsNone(split_once(range, 45)) THEN <<SideOf(range), SideOf(range)>>
    ELSE <<SideOf(Unwrap(split_once(range, 45))[1]), SideOf(Unwrap(split_once(range, 45))[2])>>

\* The instant is in the time zone and reads there as the day of the side
\* of the year at the hour and the minute, second 0.
IsLocal(dt, tz, year, side, hour, minutes) ==
    /\ dt.tz = tz
    /\ LocalFields(dt) = [year |-> year, month |-> side.month, day |-> side.day,
                          hour |-> hour, minute |-> minutes, second |-> 0]

\* C19 of one session, its Event and its Component.
StartsAndRecurs(session, sides, e, c, hour, minutes) ==
    /\ IsLocal(e.start, Unwrap(id).time_zone, Unwrap(id).year, sides[1], hour, minutes)
    /\ IF sides[1] = sides[2]
       THEN IsNone(e.recurrence) /\ IsNone(first_prop(c, "RRULE"))
       ELSE /\ IsSome(e.recurrence)
            /\ Unwrap(e.recurrence).frequency = "Week"
            /\ IsNone(Unwrap(e.recurrence).count)
            /\ IsNone(Unwrap(e.recurrence).interval)
            /\ IsSome(Unwrap(e.recurrence).until)
            /\ IsLocal(Unwrap(Unwrap(e.recurrence).until), Unwrap(id).time_zone,
                       Unwrap(id).year, sides[2], hour, minutes)
            /\ first_prop(c, "RRULE")
                 = Some([name |-> "RRULE", params |-> <<>>,
                         value |-> <<70, 82, 69, 81, 61, 87, 69, 69, 75, 76, 89,
                                     59, 85, 78, 84, 73, 76, 61>>
                                    \o UtcStamp(Unwrap(Unwrap(e.recurrence).until).utc)])

\* C19: an Event starts on the start date of its session at the start time
\* of its row, in the time zone of the identifier; it has no recurrence
\* when the range has no '-' or two sides of the same date, and otherwise
\* the weekly recurrence until the end date at the start time of the row,
\* rendered RRULE:FREQ=WEEKLY;UNTIL= and that instant in UTC.
C19_RecurrenceFromRange ==
    Extracted =>
        \A k \in DOMAIN Unwrap(parser).events :
            StartsAndRecurs(SessionsOfDocument(html)[k],
                            SidesOf(WithoutColons(SessionsOfDocument(html)[k].range)),
                            Unwrap(parser).events[k],
                            Unwrap(Unwrap(timetable).calendar).components[k],
                            Unwrap(ParseInt(SessionsOfDocument(html)[k].hour, 0, 23)),
                            Unwrap(ParseInt(SessionsOfDocument(html)[k].minutes, 0, 59)))

\* The 2022 page in Madrid with 12.sep-19.dic and then 12.sep at 19:52: the
\* first Event recurs until 19 December 18:52 UTC, the second does not.
C19_Witness ==
    /\ Extracted
    /\ Unwrap(id) = TimetableIdNew(2022, 433, 2, 4, 121, 1, "Europe/Madrid")
    /\ Len(Unwrap(parser).events) = 2
    /\ Unwrap(first_prop(Unwrap(Unwrap(timetable).calendar).components[1], "RRULE")).value
         = <<70, 82, 69, 81, 61, 87, 69, 69, 75, 76, 89, 59, 85, 78, 84, 73, 76, 61,
             50, 48, 50, 50, 49, 50, 49, 57, 84, 49, 56, 53, 50, 48, 48>>
    /\ IsNone(Unwrap(parser).events[2].recurrence)
    /\ LocalFields(Unwrap(parser).events[2].start)
         = [year |-> 2022, month |-> 9, day |-> 12, hour |-> 19, minute |-> 52, second |-> 0]

\* The session lists of the document: the nodes of every element of the
\* class of the lists.
SessionLists(document) ==
    {select(document, "fechasSesion")[k].children :
        k \in DOMAIN select(document, "fechasSesion")}

\* C20: a session list whose number of nodes is not a multiple of three is
\* an error of push_sessions, so that no call returns a Timetable for a
\* document that holds such a list.
C20_IrregularListIsError ==
    Extracted => \A list \in SessionLists(html) : Len(list) % 3 = 0

\* The units of a row in document order, each with how it ends on its own
\* and the events it gives: the time header, then for every session cell
\* its construction and, where that succeeds, its sessions (one unit for
\* a group that has no list of sessions to go through).
Unit(kind, err, events) == [kind |-> kind, err |-> err, events |-> events]
SessionUnit(session) ==
    Unit(session.kind, session.err, IF session.kind = "Ok" THEN <<session.val>> ELSE <<>>)
ListUnits(cell, course_name, list) ==
    [k \in 1..(Len(list) \div 3) |->
        SessionUnit(SessionOfTuple(cell, course_name, list[3 * k - 2], list[3 * k - 1]))]
GroupUnits(cell, pushed) ==
    IF pushed.kind = "Err"
         /\ pushed.err \in {"ChildlessGroupElem", "NonTextualGroupChild", "MissingSessionsElem"}
    THEN <<Unit("Err", pushed.err, <<>>)>>
    ELSE ListUnits(cell, cell.group_elem.children[1].text,
                   Head(select(cell.group_elem, "fechasSesion")).children)
CellUnits(made) ==
    IF made.kind # "Ok" THEN <<Unit(made.kind, made.err, <<>>)>>
    ELSE <<Unit("Ok", "", <<>>)>> \o GroupUnits(made.val, push_sessions(made.val, <<>>))
HeaderUnit(p, row) ==
    parse_row(p, [row EXCEPT !.children =
                     SelectSeq(@, LAMBDA n : ~(n.elem /\ n.class = "celdaConSesion"))],
              <<>>)
StartOfRow(time_cell) ==
    from_hms(get_time_text(time_cell).val,
             get_time_text(time_cell.children[Len(time_cell.children)]).val)
CellsUnits(p, start_time, cells) ==
    Concat([k \in DOMAIN cells |-> CellUnits(CellNew(p, start_time, cells[k]))])
RowUnits(p, row) ==
    IF HeaderUnit(p, row).kind # "Ok"
    THEN <<Unit(HeaderUnit(p, row).kind, HeaderUnit(p, row).err, <<>>)>>
    ELSE <<Unit("Ok", "", <<>>)>>
            \o CellsUnits(p, StartOfRow(Head(select(row, "cabeceraHora"))),
                          SelectSeq(row.children,
                                    LAMBDA n : n.elem /\ n.class = "celdaConSesion"))

\* The first unit that does not succeed, 0 where every unit does, and the
\* events of the units before it.
FirstFailure(units) ==
    IF \A k \in DOMAIN units : units[k].kind = "Ok" THEN 0
    ELSE CHOOSE k \in DOMAIN units :
            units[k].kind # "Ok" /\ \A j \in 1..(k - 1) : units[j].kind = "Ok"
EventsBefore(units, n) == Concat([k \in 1..(n - 1) |-> units[k].events])

\* A call that returned a ParseError.
Failed == IsSome(timetable) /\ ~Unwrap(timetable).ok

\* What C21 says of one turn of the loop over the rows.
RowFailsFast(units, first) ==
    IF first # 0 /\ units[first].kind = "Err"
    THEN /\ timetable' = Some(TimetableErr(units[first].err))
         /\ parser' = Some([Unwrap(parser) EXCEPT
                               !.events = @ \o EventsBefore(units, first)])
    ELSE timetable' = None

\* C21: when a unit of a row gives an error, Parser::parse returns the
\* error of the first unit of the document that fails (rows in order, in a
\* row the time header, then every session cell's construction and its
\* sessions in order), with the events of the units before it pushed and
\* no Calendar; nothing of the document is processed after it.
C21_FirstErrorInDocumentOrder ==
    /\ [][ParseRow =>
            RowFailsFast(RowUnits(Unwrap(parser), RowElems(html)[Unwrap(parser).rows + 1]),
                         FirstFailure(RowUnits(Unwrap(parser),
                                               RowElems(html)[Unwrap(parser).rows + 1])))]_vars
    /\ [](Failed => IsNone(Unwrap(timetable).calendar) /\ IsNone(calendar))
    /\ [][(Failed /\ earlier' = earlier) => UNCHANGED <<parser, timetable>>]_vars

\* The row of a lecture, a cell with a childless group and a cell with no
\* group, before another row: the error of the second cell is returned,
\* the lecture's event is in the buffer and no row is done.
C21_Witness ==
    /\ timetable = Some(TimetableErr("ChildlessGroupElem"))
    /\ Len(RowElems(html)) = 2
    /\ Unwrap(parser).rows = 0
    /\ Len(Unwrap(parser).events) = 1
    /\ Len(RowElems(html)[1].children) = 5
    /\ RowElems(html)[1].children[5].children = <<>>

\* The rowspan attribute of the cell of every session of a document that
\* was parsed to the end, in document order.
SpansOfCell(cell) ==
    [k \in 1..(Len(Head(select(Head(select(cell, "asignaturaGrupo")),
                               "fechasSesion")).children) \div 3) |-> cell.rowspan]
SpansOfRow(row) ==
    Concat([k \in DOMAIN row.children |->
              IF row.children[k].elem /\ row.children[k].class = "celdaConSesion"
              THEN SpansOfCell(row.children[k]) ELSE <<>>])
SpansOfDocument(document) ==
    Concat([k \in DOMAIN Head(select(document, "timetable>tbody")).children |->
              SpansOfRow(Head(select(document, "timetable>tbody")).children[k])])

\* Whether the text of an attribute is a number: digits after at most one sign.
AllDigits(text) == text # <<>> /\ \A i \in DOMAIN text : text[i] \in 48..57
IsNumber(text) ==
    text # <<>> /\ AllDigits(IF text[1] \in {43, 45} THEN Tail(text) ELSE text)

\* The number of quarters of an hour a rowspan attribute stands for.
Quarters(rowspan) ==
    IF IsNone(rowspan) THEN 1
    ELSE Unwrap(ParseInt(Unwrap(rowspan), 0 - I32Max - 1, I32Max))

\* The session cells of a row, and the first of them.
SessionCells(row) ==
    SelectSeq(row.children, LAMBDA n : n.elem /\ n.class = "celdaConSesion")
FirstSpanIsNoNumber(row) ==
    /\ SessionCells(row) # <<>>
    /\ IsSome(SessionCells(row)[1].rowspan)
    /\ ~IsNumber(Unwrap(SessionCells(row)[1].rowspan))

\* C23: the duration of every extracted Event is 15 minutes times the
\* rowspan of its cell, 1 where the cell has no rowspan attribute, so that
\* the sessions of one cell have one duration; a cell whose rowspan is no
\* number is the error InvalidRowSpan, returned when the row's header is
\* sound and the cell is the first of its row.
C23_DurationFromRowspan ==
    /\ [](Extracted =>
            \A k \in DOMAIN Unwrap(parser).events :
                Unwrap(parser).events[k].duration
                    = Some(15 * 60 * Quarters(SpansOfDocument(html)[k])))
    /\ [][(ParseRow /\ HeaderUnit(Unwrap(parser),
                                  RowElems(html)[Unwrap(parser).rows + 1]).kind = "Ok"
                    /\ FirstSpanIsNoNumber(RowElems(html)[Unwrap(parser).rows + 1]))
            => /\ timetable' = Some(TimetableErr("InvalidRowSpan"))
               /\ Unwrap(parser').events = Unwrap(parser).events]_vars

\* A cell of rowspan 2 with two sessions: two Events of half an hour.
C23_Witness ==
    /\ Extracted
    /\ SpansOfDocument(html) = <<Some(<<50>>), Some(<<50>>)>>
    /\ Len(Unwrap(parser).events) = 2
    /\ Unwrap(parser).events[1].duration = Some(1800)
    /\ Unwrap(parser).events[2].duration = Some(1800)

\* The (date-range, location) pairs of a document that was parsed to the
\* end, in row order, then cell order, then the order of the list: every
\* date-range node that has a location node after it, in the cells of the
\* class celdaConSesion only.
PairsOfList(hour, minutes, course_name, list) ==
    [k \in 1..((Len(list) + 1) \div 3) |->
        [hour |-> hour, minutes |-> minutes, course_name |-> course_name,
         range |-> list[3 * k - 2].children[1].text,
         location |-> list[3 * k - 1].children[1].text]]
PairsOfGroup(hour, minutes, group) ==
    PairsOfList(hour, minutes, group.children[1].text,
                Head(select(group, "fechasSesion")).children)
PairsOfCells(hour, minutes, cells) ==
    Concat([k \in DOMAIN cells |->
              PairsOfGroup(hour, minutes, Head(select(cells[k], "asignaturaGrupo")))])
PairsOfTimeCell(time_cell, row) ==
    PairsOfCells(Unwrap(ParseInt(time_cell.children[1].text, 0, 23)),
                 Unwrap(ParseInt(time_cell.children[Len(time_cell.children)].children[1].text,
                                 0, 59)),
                 SessionCells(row))
PairsOfRow(row) == PairsOfTimeCell(Head(select(row, "cabeceraHora")), row)
PairsOfDocument(document) ==
    Concat([k \in DOMAIN RowElems(document) |-> PairsOfRow(RowElems(document)[k])])

\* The Component is the VEVENT of the pair: its UID, its LOCATION and the
\* hour and the minute of its row.
IsEventOfPair(c, e, pair) ==
    /\ c = ComponentFromEvent(e)
    /\ c.name = "VEVENT"
    /\ e.uid = UidOfSession(pair)
    /\ first_prop(c, "LOCATION") = Some([name |-> "LOCATION", params |-> <<>>,
                                         value |-> pair.location])
    /\ LocalFields(e.start).hour = pair.hour
    /\ LocalFields(e.start).minute = pair.minutes

\* C22: the components of a returned Calendar are the VEVENTs of the
\* (date-range, location) pairs of the session cells, one for each pair,
\* in row order, then cell order, then session order, whatever their times.
C22_OneEventPerPairInOrder ==
    Extracted =>
        /\ Len(Unwrap(Unwrap(timetable).calendar).components) = Len(PairsOfDocument(html))
        /\ \A k \in DOMAIN PairsOfDocument(html) :
              IsEventOfPair(Unwrap(Unwrap(timetable).calendar).components[k],
                            Unwrap(parser).events[k], PairsOfDocument(html)[k])

\* C24: the until instant of the Recurrence of every recurring Event that
\* was extracted is not earlier than the start instant of the Event,
\* whatever the two dates of its range, one of a late month and one of an
\* early month included.
C24_UntilNotBeforeStart ==
    Extracted =>
        \A k \in DOMAIN Unwrap(parser).events :
            IsSome(Unwrap(parser).events[k].recurrence) =>
                Unwrap(Unwrap(Unwrap(parser).events[k].recurrence).until).utc
                    >= Unwrap(parser).events[k].start.utc

\* C25: the UIDs of the events of one returned Calendar are pairwise
\* distinct, also where one course name has one date range in two rows,
\* in two cells or with two locations.
C25_UidsPairwiseDistinct ==
    Extracted =>
        \A j, k \in DOMAIN Unwrap(parser).events :
            j # k => Unwrap(parser).events[j].uid # Unwrap(parser).events[k].uid

====
